---------------------------- MODULE Spec2Model ----------------------------
(***************************************************************************)
(* Model of the tokscale core: the parallel aggregation engine             *)
(* (packages/core/src/aggregator.rs) and the pricing resolver              *)
(* (core/src/pricing.rs).                                                  *)
(*                                                                         *)
(* Conventions                                                             *)
(*  - Strings are sequences of ASCII codes, so that concatenation,         *)
(*    substring search, lower-casing and lexical order are computed.       *)
(*  - i64 token counters live on a scaled-down range 0..I64Max; the        *)
(*    saturating and the plain (wrapping / panicking) additions of the     *)
(*    source are kept apart.                                               *)
(*  - f64 values: a cost is an integer number of quanta (QuantaPerMicro     *)
(*    quanta = 1e-6) and the sum of two costs is rounded to MantissaBits   *)
(*    significant bits; a rate or ratio is an exact reduced fraction       *)
(*    [n, d], the rounding of divisions is not modelled.                   *)
(*  - Timestamps are milliseconds on the range -(TimestampMax + 1) ..       *)
(*    TimestampMax, which stands for the i64 range; the u64 width runs up  *)
(*    to 2 * TimestampMax + 1.                                             *)
(***************************************************************************)
EXTENDS Integers, Sequences, FiniteSets, TLC

(***************************************************************************)
(* Bounds of the model                                                     *)
(***************************************************************************)
\* stands for i64::MAX in the arithmetic of the token counters
I64Max == 15
\* longest message collection handed to an aggregation
MaxMsgs == 3
\* number of cost quanta in one micro-unit of cost (resolution of the f64 cost)
QuantaPerMicro == 2
\* bits of the significand of a cost (stands for the 53 bits of an f64)
MantissaBits == 4
\* stands for i64::MAX in the arithmetic of the timestamps (milliseconds)
TimestampMax == 16383
\* number of IntervalBucket values the memory holds: a larger allocation
\* fails (capacity overflow or allocation error)
MaxBuckets == 8

(***************************************************************************)
(* Program constants                                                       *)
(***************************************************************************)
MIN_DT_MS == 5000
MAX_DT_MS == 1800000
MS_PER_MINUTE == 60000

(***************************************************************************)
(* Generic helpers                                                         *)
(***************************************************************************)
Min2(a, b) == IF a <= b THEN a ELSE b
Max2(a, b) == IF a >= b THEN a ELSE b
Abs(x) == IF x < 0 THEN -x ELSE x

RECURSIVE Gcd(_, _)
Gcd(a, b) == IF b = 0 THEN a ELSE Gcd(b, a % b)

\* exact value standing for an f64: the reduced fraction n/d with the sign in
\* the numerator
Rat(n, d) ==
  LET g  == Gcd(Abs(n), Abs(d))
      sn == IF d < 0 THEN -n ELSE n
  IN  IF g = 0 THEN [n |-> sn, d |-> Abs(d)] ELSE [n |-> sn \div g, d |-> Abs(d) \div g]
RatLess(a, b) == a.n * b.d < b.n * a.d
RatLeq(a, b) == a.n * b.d <= b.n * a.d

\* f64::max and f64::min
F64Max2(a, b) == IF RatLess(a, b) THEN b ELSE a
F64Min2(a, b) == IF RatLess(b, a) THEN b ELSE a
\* f64::MAX, larger than every rate of the model (compares as n/0)
F64_MAX == [n |-> 1, d |-> 0]
RatZero == [n |-> 0, d |-> 1]

RECURSIVE Pow2(_)
Pow2(n) == IF n = 0 THEN 1 ELSE 2 * Pow2(n - 1)

\* the spacing of the representable costs around x >= 0: 1 below
\* 2^MantissaBits, doubling with every further binary order of magnitude
RECURSIVE Ulp(_)
Ulp(x) == IF x < Pow2(MantissaBits) THEN 1 ELSE 2 * Ulp(x \div 2)

\* rounding of an exact sum x >= 0 to the nearest representable cost, a tie
\* going to the even significand
F64Round(x) ==
  LET u == Ulp(x)
      q == x \div u
      r == x % u
  IN  IF 2 * r < u THEN q * u
      ELSE IF 2 * r > u THEN (q + 1) * u
      ELSE IF q % 2 = 0 THEN q * u ELSE (q + 1) * u

\* f64 `+` on costs (which are not negative)
F64Add(a, b) == F64Round(a + b)

\* i64 `/`: Rust integer division truncates toward zero
TruncDiv(a, b) ==
  IF (a >= 0) = (b > 0) THEN Abs(a) \div Abs(b) ELSE -(Abs(a) \div Abs(b))

\* i64::saturating_add on the counter range
SaturatingAdd(a, b) ==
  IF a + b > I64Max THEN I64Max
  ELSE IF a + b < -(I64Max + 1) THEN -(I64Max + 1)
  ELSE a + b

\* i64 `+` in a build without overflow checks: two's complement wrap
WrappingAdd(a, b) ==
  ((a + b + I64Max + 1) % (2 * (I64Max + 1))) - (I64Max + 1)
\* i64 `+` overflows (panics when overflow checks are on)
AddOverflows(a, b) == a + b > I64Max \/ a + b < -(I64Max + 1)

\* `as i64` on the u64 width: the upper half of the u64 range is negative
AsI64(u) == IF u > TimestampMax THEN u - 2 * (TimestampMax + 1) ELSE u

\* i64 `+` and `-` on timestamps without overflow checks: the exact result x
\* wrapped into the range; with checks the operation panics when it overflows
WrapTimestamp(x) ==
  ((x + TimestampMax + 1) % (2 * (TimestampMax + 1))) - (TimestampMax + 1)
TimestampOverflows(x) == x > TimestampMax \/ x < -(TimestampMax + 1)

Clamp(x, lo, hi) == IF x < lo THEN lo ELSE IF x > hi THEN hi ELSE x

\* the permutations of 1..n
Perms(n) == { p \in [1..n -> 1..n] : \A i, j \in 1..n : p[i] = p[j] => i = j }
Permute(s, p) == [i \in 1..Len(s) |-> s[p[i]]]

RECURSIVE SetSum(_, _)
SetSum(S, f) ==
  IF S = {} THEN 0
  ELSE LET x == CHOOSE y \in S : TRUE IN f[x] + SetSum(S \ {x}, f)

(***************************************************************************)
(* Strings                                                                 *)
(***************************************************************************)
\* "2024-01-01"
STR_2024_01_01 == <<50,48,50,52,45,48,49,45,48,49>>
\* "test"
STR_test == <<116,101,115,116>>
\* "test-model"
STR_test_model == <<116,101,115,116,45,109,111,100,101,108>>
\* "test-provider"
STR_test_provider == <<116,101,115,116,45,112,114,111,118,105,100,101,114>>

(***************************************************************************)
(* TokenBreakdown                                                          *)
(***************************************************************************)
TokenFields == {"input", "output", "cache_read", "cache_write", "reasoning"}

TokenBreakdown(i, o, cr, cw, r) ==
  [input |-> i, output |-> o, cache_read |-> cr, cache_write |-> cw, reasoning |-> r]

TokenBreakdownDefault == TokenBreakdown(0, 0, 0, 0, 0)

\* field-wise saturating_add of two breakdowns
BreakdownSaturatingAdd(a, b) ==
  [input       |-> SaturatingAdd(a.input, b.input),
   output      |-> SaturatingAdd(a.output, b.output),
   cache_read  |-> SaturatingAdd(a.cache_read, b.cache_read),
   cache_write |-> SaturatingAdd(a.cache_write, b.cache_write),
   reasoning   |-> SaturatingAdd(a.reasoning, b.reasoning)]

\* msg.tokens.input.saturating_add(output)...saturating_add(reasoning)
MessageTotalTokens(t) ==
  SaturatingAdd(SaturatingAdd(SaturatingAdd(SaturatingAdd(
      t.input, t.output), t.cache_read), t.cache_write), t.reasoning)

UnifiedMessage(ts, date, tok, cost, source, model, provider) ==
  [timestamp |-> ts, date |-> date, tokens |-> tok, cost |-> cost,
   source |-> source, model_id |-> model, provider_id |-> provider]


(***************************************************************************)
(* HashMap helpers: a map is a function, the empty map has no key          *)
(***************************************************************************)
EmptyMap == << >>

\* map.entry(k).or_default() followed by an update f of the entry
MapUpsert(m, k, v) == [x \in DOMAIN m \cup {k} |-> IF x = k THEN v ELSE m[x]]

(***************************************************************************)
(* IntervalAccumulator                                                     *)
(***************************************************************************)
IntervalAccumulatorDefault ==
  [token_breakdown |-> TokenBreakdownDefault, messages |-> 0, cost |-> 0,
   message_data |-> << >>]

IntervalAddMessage(acc, msg) ==
  [token_breakdown |-> BreakdownSaturatingAdd(acc.token_breakdown, msg.tokens),
   messages        |-> acc.messages + 1,
   cost            |-> F64Add(acc.cost, msg.cost),
   message_data    |-> Append(acc.message_data,
                              <<msg.timestamp, MessageTotalTokens(msg.tokens)>>)]

\* variant: the counters are merged with the plain `+` instead of saturating_add
IntervalMerge_PlainAdd(acc, other) ==
  [token_breakdown |->
     [f \in TokenFields |-> WrappingAdd(acc.token_breakdown[f], other.token_breakdown[f])],
   messages        |-> acc.messages + other.messages,
   cost            |-> F64Add(acc.cost, other.cost),
   message_data    |-> acc.message_data \o other.message_data]

IntervalMerge(acc, other) ==
  [token_breakdown |-> BreakdownSaturatingAdd(acc.token_breakdown, other.token_breakdown),
   messages        |-> acc.messages + other.messages,
   cost            |-> F64Add(acc.cost, other.cost),
   message_data    |-> acc.message_data \o other.message_data]

\* sorted.sort_by_key(|(ts, _)| *ts): a stable sort, equal keys keep their order
RECURSIVE InsertByTs(_, _)
InsertByTs(sorted, e) ==
  IF sorted = << >> THEN <<e>>
  ELSE IF sorted[Len(sorted)][1] <= e[1] THEN Append(sorted, e)
  ELSE Append(InsertByTs(SubSeq(sorted, 1, Len(sorted) - 1), e), sorted[Len(sorted)])

RECURSIVE SortByTs(_)
SortByTs(data) ==
  IF data = << >> THEN << >>
  ELSE InsertByTs(SortByTs(SubSeq(data, 1, Len(data) - 1)), data[Len(data)])

\* variant: the gap between two messages is not raised to MIN_DT_MS
RECURSIVE ConsecutiveRates_NoFloor(_, _)
ConsecutiveRates_NoFloor(sorted, i) ==
  IF i = 0 THEN [max_rate |-> RatZero, min_rate |-> F64_MAX]
  ELSE LET prev  == ConsecutiveRates_NoFloor(sorted, i - 1)
           dt_ms == Min2(sorted[i + 1][1] - sorted[i][1], MAX_DT_MS)
           rate  == Rat(sorted[i + 1][2] * MS_PER_MINUTE, dt_ms)
       IN  [max_rate |-> F64Max2(prev.max_rate, rate),
            min_rate |-> F64Min2(prev.min_rate, rate)]

\* the loop over consecutive pairs: running (max_rate, min_rate) after pairs 1..i
RECURSIVE ConsecutiveRates(_, _)
ConsecutiveRates(sorted, i) ==
  IF i = 0 THEN [max_rate |-> RatZero, min_rate |-> F64_MAX]
  ELSE LET prev  == ConsecutiveRates(sorted, i - 1)
           ts1   == sorted[i][1]
           ts2   == sorted[i + 1][1]
           tokens2 == sorted[i + 1][2]
           dt_ms == Clamp(ts2 - ts1, MIN_DT_MS, MAX_DT_MS)
           rate  == Rat(tokens2 * MS_PER_MINUTE, dt_ms)
       IN  [max_rate |-> F64Max2(prev.max_rate, rate),
            min_rate |-> F64Min2(prev.min_rate, rate)]

\* total_tokens = input + output + cache_read + cache_write + reasoning with
\* the plain i64 `+`: value after wrapping, and whether some addition overflowed
RateTotalTokens(tb) ==
  LET s1 == WrappingAdd(tb.input, tb.output)
      s2 == WrappingAdd(s1, tb.cache_read)
      s3 == WrappingAdd(s2, tb.cache_write)
      s4 == WrappingAdd(s3, tb.reasoning)
  IN  [value    |-> s4,
       overflow |-> \/ AddOverflows(tb.input, tb.output)
                    \/ AddOverflows(s1, tb.cache_read)
                    \/ AddOverflows(s2, tb.cache_write)
                    \/ AddOverflows(s3, tb.reasoning)]

RateStatsNone == [kind |-> "None"]
RateStatsPanic == [kind |-> "Panic"]
RateStats(avg, max, min) ==
  [kind |-> "Some", avg_tokens_per_min |-> avg, max_tokens_per_min |-> max,
   min_tokens_per_min |-> min]

\* variant: no statistics for a bucket with fewer than two messages
CalculateRateStats_NoneBelowTwo(acc, w, checks) ==
  IF Len(acc.message_data) < 2 THEN RateStatsNone
  ELSE LET total == RateTotalTokens(acc.token_breakdown)
           avg   == Rat(total.value * MS_PER_MINUTE, w)
       IN  IF checks /\ total.overflow THEN RateStatsPanic
           ELSE RateStats(avg, avg, avg)

\* checks: the build has integer overflow checks (debug profile)
CalculateRateStats(acc, w, checks) ==
  IF acc.message_data = << >> THEN RateStatsNone
  ELSE LET total == RateTotalTokens(acc.token_breakdown)
           avg   == Rat(total.value * MS_PER_MINUTE, w)
       IN  IF checks /\ total.overflow THEN RateStatsPanic
           ELSE IF Len(acc.message_data) = 1 THEN RateStats(avg, avg, avg)
           ELSE LET sorted == SortByTs(acc.message_data)
                    r      == ConsecutiveRates(sorted, Len(sorted) - 1)
                    min_rate == IF r.min_rate = F64_MAX THEN avg ELSE r.min_rate
                IN  RateStats(avg, F64Max2(r.max_rate, avg), F64Min2(min_rate, avg))

IntervalBucket(start, end, tb, n, micros, rs) ==
  [start_ms |-> start, end_ms |-> end, token_breakdown |-> tb, messages |-> n,
   cost_micros |-> micros, rate_stats |-> rs]

\* (self.cost * 1_000_000.0) as i64: the cast truncates toward zero
CostMicros(cost) == TruncDiv(cost, QuantaPerMicro)

\* end_ms: start_ms + interval_ms is a plain i64 addition
IntoBucket(acc, start_ms, w, checks) ==
  IntervalBucket(start_ms, WrapTimestamp(start_ms + w), acc.token_breakdown,
                 acc.messages, CostMicros(acc.cost), CalculateRateStats(acc, w, checks))

\* the bucket materialised for a start without accumulator
EmptyBucket(start_ms, w) ==
  IntervalBucket(start_ms, WrapTimestamp(start_ms + w), TokenBreakdownDefault, 0, 0,
                 RateStatsNone)

\* line 66: ((last_bucket - first_bucket) / interval_ms_i64 + 1), the value
\* before the cast to usize and whether the subtraction overflowed
BucketCount(first_bucket, last_bucket, w) ==
  [value    |-> TruncDiv(WrapTimestamp(last_bucket - first_bucket), w) + 1,
   overflow |-> TimestampOverflows(last_bucket - first_bucket)]

\* (msg.timestamp / interval_ms_i64) * interval_ms_i64
BucketStart(ts, w) == TruncDiv(ts, w) * w

\* the fold closure of aggregate_by_interval
IntervalFoldOp(map, msg, w) ==
  LET b   == BucketStart(msg.timestamp, w)
      old == IF b \in DOMAIN map THEN map[b] ELSE IntervalAccumulatorDefault
  IN  MapUpsert(map, b, IntervalAddMessage(old, msg))

\* variant: an entry of b replaces the entry of a instead of being merged
IntervalReduceOp_Insert(a, b) ==
  [k \in DOMAIN a \cup DOMAIN b |-> IF k \in DOMAIN b THEN b[k] ELSE a[k]]

\* the reduce closure of aggregate_by_interval: every entry of b is merged into a
IntervalReduceOp(a, b) ==
  [k \in DOMAIN a \cup DOMAIN b |->
     IF k \in DOMAIN b
     THEN IntervalMerge(IF k \in DOMAIN a THEN a[k] ELSE IntervalAccumulatorDefault, b[k])
     ELSE a[k]]

\* the parallel min/max reduction over the timestamps
MinTimestamp(msgs) ==
  CHOOSE t \in {msgs[i].timestamp : i \in 1..Len(msgs)} :
    \A i \in 1..Len(msgs) : t <= msgs[i].timestamp
MaxTimestamp(msgs) ==
  CHOOSE t \in {msgs[i].timestamp : i \in 1..Len(msgs)} :
    \A i \in 1..Len(msgs) : t >= msgs[i].timestamp

(***************************************************************************)
(* State                                                                   *)
(***************************************************************************)
VARIABLES
  messages,         \* the Vec<UnifiedMessage> handed to the aggregation
  interval_ms,      \* the interval width handed to aggregate_by_interval
  overflow_checks,  \* build profile: integer overflow panics (TRUE) or wraps
  parts,            \* the splits of the parallel iterator, left to right:
                    \* [todo: messages still to fold, acc: the split's map,
                    \*  started: the split has begun folding,
                    \*  merges: number of reductions that produced acc]
  pc,               \* position in the running call
  range,            \* [first_bucket, last_bucket] of aggregate_by_interval
  bucket_map,       \* the reduced HashMap of the running aggregation
  current,          \* loop variable of the gap-filling loop
  buckets,          \* Vec<IntervalBucket> under construction / returned
  contributions,    \* Vec<DailyContribution> returned by aggregate_by_date
  models,           \* PricingData.models
  lookup,           \* the last pricing call and what it returned
  summary,          \* DataSummary returned by calculate_summary
  years,            \* years_map, then the Vec<YearSummary> of calculate_years
  accs,             \* accumulators under construction, by name
  merged            \* results of the merges of the accumulators of accs

vars == <<messages, interval_ms, overflow_checks, parts, pc, range, bucket_map,
          current, buckets, contributions, models, lookup, summary, years,
          accs, merged>>

Idle == << >>

(***************************************************************************)
(* Inputs of aggregate_by_interval                                         *)
(***************************************************************************)
\* interval_ms is a u64: zero is accepted by the signature
IntervalWidths == {0, 1000, 8000}

\* (tokens, cost) of the messages: a small one, a second small one, and one
\* whose input counter is one below the top of the counter range
PayloadSmall == [tokens |-> TokenBreakdown(1, 0, 2, 0, 1), cost |-> 1]
PayloadMixed == [tokens |-> TokenBreakdown(2, 1, 0, 3, 0), cost |-> 3]
PayloadLarge == [tokens |-> TokenBreakdown(I64Max - 1, 0, 0, 0, 0), cost |-> 0]

TestMessage(ts, p) ==
  UnifiedMessage(ts, STR_2024_01_01, p.tokens, p.cost,
                 STR_test, STR_test_model, STR_test_provider)

\* a timestamp before the epoch, two messages with one timestamp, messages
\* less than MIN_DT_MS apart, and messages with empty intervals between them
IntervalMessages ==
  { TestMessage(-500, PayloadSmall),
    TestMessage(100, PayloadSmall),
    TestMessage(100, PayloadMixed),
    TestMessage(500, PayloadLarge),
    TestMessage(3000, PayloadMixed),
    TestMessage(6500, PayloadSmall) }

SeqsUpTo(S, n) == UNION { [1..k -> S] : k \in 0..n }

InitInterval ==
  /\ messages \in SeqsUpTo(IntervalMessages, MaxMsgs)
  /\ interval_ms \in IntervalWidths
  /\ overflow_checks \in BOOLEAN
  /\ pc = "interval_call"
  /\ parts = << >>
  /\ range = Idle
  /\ bucket_map = EmptyMap
  /\ current = 0
  /\ buckets = << >>
  /\ contributions = Idle
  /\ models = Idle
  /\ lookup = Idle
  /\ summary = Idle
  /\ years = Idle
  /\ accs = Idle
  /\ merged = Idle

(***************************************************************************)
(* The parallel iterator: split, fold, reduce                              *)
(***************************************************************************)
Part(todo) == [todo |-> todo, acc |-> EmptyMap, started |-> FALSE, merges |-> 0]

\* the split that results from reducing the finished splits l and r into acc
Reduced(l, r, acc) ==
  [todo |-> << >>, acc |-> acc, started |-> TRUE, merges |-> l.merges + r.merges + 1]

\* a split that has not begun folding is divided into two adjacent splits
SplitParts(ps, i, k) ==
  SubSeq(ps, 1, i - 1)
    \o << Part(SubSeq(ps[i].todo, 1, k)),
          Part(SubSeq(ps[i].todo, k + 1, Len(ps[i].todo))) >>
    \o SubSeq(ps, i + 1, Len(ps))

CanSplit(ps, i, k) ==
  /\ i \in 1..Len(ps)
  /\ ~ps[i].started
  /\ k \in 1..(Len(ps[i].todo) - 1)

CanFold(ps, i) == i \in 1..Len(ps) /\ ps[i].todo # << >>

\* two adjacent finished splits are combined, the left one receiving the right
CanReduce(ps, i) ==
  /\ i \in 1..(Len(ps) - 1)
  /\ ps[i].todo = << >>
  /\ ps[i + 1].todo = << >>

ReplaceTwo(ps, i, p) == SubSeq(ps, 1, i - 1) \o <<p>> \o SubSeq(ps, i + 2, Len(ps))

AllFolded(ps) == Len(ps) = 1 /\ ps[1].todo = << >>

(***************************************************************************)
(* aggregate_by_interval                                                   *)
(***************************************************************************)
\* lines 46-71: early return, the cast of the width, min/max, first and last
\* bucket, bucket_count and the allocation of the maps with that capacity; the
\* integer division of line 64 panics on a zero divisor in every build
\* profile, a negative bucket_count is a capacity beyond the address space
IntervalCall ==
  /\ pc = "interval_call"
  /\ IF messages = << >>
     THEN /\ pc' = "interval_done"
          /\ UNCHANGED <<parts, range>>
     ELSE IF interval_ms = 0
     THEN /\ pc' = "interval_div_by_zero"
          /\ UNCHANGED <<parts, range>>
     ELSE LET w     == AsI64(interval_ms)
              first == BucketStart(MinTimestamp(messages), w)
              last  == BucketStart(MaxTimestamp(messages), w)
              count == BucketCount(first, last, w)
          IN  IF overflow_checks /\ count.overflow
              THEN /\ pc' = "interval_panic"
                   /\ UNCHANGED <<parts, range>>
              ELSE IF count.value < 0 \/ count.value > MaxBuckets
              THEN /\ pc' = "interval_alloc_failure"
                   /\ UNCHANGED <<parts, range>>
              ELSE /\ pc' = "interval_fold"
                   /\ range' = [first_bucket |-> first, last_bucket |-> last]
                   /\ parts' = << Part(messages) >>
  /\ UNCHANGED <<summary, years, accs, merged, messages, interval_ms, overflow_checks, bucket_map, current,
                 buckets, contributions, models, lookup>>

IntervalSplit ==
  /\ pc = "interval_fold"
  /\ \E i \in 1..Len(parts) : \E k \in 1..MaxMsgs :
       /\ CanSplit(parts, i, k)
       /\ parts' = SplitParts(parts, i, k)
  /\ UNCHANGED <<summary, years, accs, merged, messages, interval_ms, overflow_checks, pc, range, bucket_map,
                 current, buckets, contributions, models, lookup>>

\* lines 72-76: one message of a split is folded into the split's map
IntervalFold ==
  /\ pc = "interval_fold"
  /\ \E i \in 1..Len(parts) :
       /\ CanFold(parts, i)
       /\ parts' = [parts EXCEPT
                      ![i] = [todo    |-> Tail(parts[i].todo),
                              acc     |-> IntervalFoldOp(parts[i].acc, Head(parts[i].todo),
                                                         AsI64(interval_ms)),
                              started |-> TRUE,
                              merges  |-> 0]]
  /\ UNCHANGED <<summary, years, accs, merged, messages, interval_ms, overflow_checks, pc, range, bucket_map,
                 current, buckets, contributions, models, lookup>>

\* lines 80-85
IntervalReduce ==
  /\ pc = "interval_fold"
  /\ \E i \in 1..Len(parts) :
       /\ CanReduce(parts, i)
       /\ parts' = ReplaceTwo(parts, i,
                      Reduced(parts[i], parts[i + 1],
                              IntervalReduceOp(parts[i].acc, parts[i + 1].acc)))
  /\ UNCHANGED <<summary, years, accs, merged, messages, interval_ms, overflow_checks, pc, range, bucket_map,
                 current, buckets, contributions, models, lookup>>

\* lines 68, 88-89: the reduction is complete, the gap-filling loop starts
IntervalCollect ==
  /\ pc = "interval_fold"
  /\ AllFolded(parts)
  /\ bucket_map' = parts[1].acc
  /\ current' = range.first_bucket
  /\ pc' = "interval_fill"
  /\ UNCHANGED <<summary, years, accs, merged, messages, interval_ms, overflow_checks, parts, range, buckets,
                 contributions, models, lookup>>

\* line 90: while current <= last_bucket
LoopContinues(cur, last_bucket) == cur <= last_bucket

\* lines 90-104: one iteration of the gap-filling loop, or its exit; end_ms
\* and current += interval_ms_i64 are plain i64 additions, the push fails
\* when the memory is used up
IntervalFill ==
  /\ pc = "interval_fill"
  /\ IF LoopContinues(current, range.last_bucket)
     THEN LET w      == AsI64(interval_ms)
              bucket == IF current \in DOMAIN bucket_map
                        THEN IntoBucket(bucket_map[current], current, w, overflow_checks)
                        ELSE EmptyBucket(current, w)
          IN  IF \/ bucket.rate_stats = RateStatsPanic
                 \/ overflow_checks /\ TimestampOverflows(current + w)
              THEN /\ pc' = "interval_panic"
                   /\ UNCHANGED <<buckets, current>>
              ELSE IF Len(buckets) >= MaxBuckets
              THEN /\ pc' = "interval_alloc_failure"
                   /\ UNCHANGED <<buckets, current>>
              ELSE /\ buckets' = Append(buckets, bucket)
                   /\ current' = WrapTimestamp(current + w)
                   /\ pc' = pc
     ELSE /\ pc' = "interval_done"
          /\ UNCHANGED <<buckets, current>>
  /\ UNCHANGED <<summary, years, accs, merged, messages, interval_ms, overflow_checks, parts, range, bucket_map,
                 contributions, models, lookup>>

NextInterval ==
  \/ IntervalCall
  \/ IntervalSplit
  \/ IntervalFold
  \/ IntervalReduce
  \/ IntervalCollect
  \/ IntervalFill

SpecInterval == InitInterval /\ [][NextInterval]_vars

(***************************************************************************)
(* Properties of aggregate_by_interval                                     *)
(***************************************************************************)
IntervalDone == pc = "interval_done"
IntervalReturned == IntervalDone /\ messages # << >>

BucketStarts == {buckets[i].start_ms : i \in 1..Len(buckets)}

\* the messages of the input that the code files under bucket start s
MessagesOfBucket(s) ==
  {i \in 1..Len(messages) : BucketStart(messages[i].timestamp, interval_ms) = s}

\* the sequential fold of a message sequence: one split, no merge
RECURSIVE IntervalSequential(_, _)
IntervalSequential(msgs, w) ==
  IF msgs = << >> THEN EmptyMap
  ELSE IntervalFoldOp(IntervalSequential(SubSeq(msgs, 1, Len(msgs) - 1), w),
                      msgs[Len(msgs)], w)

\* C2: the rate_stats of every returned bucket are those of the sequential
\* fold of the messages taken in any order
C2_RateStatsOrderIndependent ==
  IntervalReturned =>
    \A p \in Perms(Len(messages)) :
      LET ref == IntervalSequential(Permute(messages, p), interval_ms)
      IN  \A i \in 1..Len(buckets) :
            buckets[i].start_ms \in DOMAIN ref =>
              buckets[i].rate_stats =
                CalculateRateStats(ref[buckets[i].start_ms], interval_ms, overflow_checks)

\* C3: the returned buckets run from the bucket of the minimum timestamp to
\* the bucket of the maximum timestamp in steps of the width, each start
\* once, each bucket one width long
C3_BucketsContiguous ==
  IntervalReturned =>
    /\ Len(buckets) >= 1
    /\ buckets[1].start_ms = BucketStart(MinTimestamp(messages), interval_ms)
    /\ buckets[Len(buckets)].start_ms = BucketStart(MaxTimestamp(messages), interval_ms)
    /\ \A i \in 1..(Len(buckets) - 1) :
         buckets[i + 1].start_ms - buckets[i].start_ms = interval_ms
    /\ \A i \in 1..Len(buckets) : buckets[i].end_ms = buckets[i].start_ms + interval_ms
    /\ \A i, j \in 1..Len(buckets) :
         /\ i < j => buckets[i].start_ms < buckets[j].start_ms
         /\ buckets[i].start_ms = buckets[j].start_ms => i = j

\* C4: every message is accumulated under the start floor(ts / w) * w, so
\* that start <= ts < start + w
C4_BucketIsFloor ==
  \A s \in DOMAIN bucket_map :
    \A j \in 1..Len(bucket_map[s].message_data) :
      LET ts == bucket_map[s].message_data[j][1]
      IN  /\ s = (ts \div interval_ms) * interval_ms
          /\ s <= ts /\ ts < s + interval_ms

\* C5 as stated: counters are the arithmetic sums over the bucket's messages
C5_ArithmeticSums ==
  IntervalReturned =>
    \A i \in 1..Len(buckets) :
      LET ms == MessagesOfBucket(buckets[i].start_ms)
      IN  /\ buckets[i].messages = Cardinality(ms)
          /\ \A f \in TokenFields :
               buckets[i].token_breakdown[f] =
                 SetSum(ms, [m \in ms |-> messages[m].tokens[f]])

\* C5 amended: message counts are exact and sum to the input length, each
\* counter is the arithmetic sum clamped at the top of the counter range
C5_SaturatedSums ==
  IntervalReturned =>
    /\ \A i \in 1..Len(buckets) :
         LET ms == MessagesOfBucket(buckets[i].start_ms)
         IN  /\ buckets[i].messages = Cardinality(ms)
             /\ \A f \in TokenFields :
                  buckets[i].token_breakdown[f] =
                    Min2(I64Max, SetSum(ms, [m \in ms |-> messages[m].tokens[f]]))
    /\ SetSum(1..Len(buckets), [i \in 1..Len(buckets) |-> buckets[i].messages])
         = Len(messages)

\* a returned bucket with several messages whose input sum passes the range
C5_Witness ==
  /\ IntervalReturned
  /\ \E i \in 1..Len(buckets) :
       LET ms == MessagesOfBucket(buckets[i].start_ms)
       IN  /\ Cardinality(ms) >= 2
           /\ SetSum(ms, [m \in ms |-> messages[m].tokens.input]) > I64Max

\* C6: rate_stats is None exactly for the buckets without message, and those
\* have zero counters and zero cost_micros
C6_EmptyBuckets ==
  IntervalDone =>
    \A i \in 1..Len(buckets) :
      /\ (buckets[i].rate_stats = RateStatsNone) <=> (buckets[i].messages = 0)
      /\ buckets[i].messages = 0 =>
           /\ buckets[i].token_breakdown = TokenBreakdownDefault
           /\ buckets[i].cost_micros = 0

\* a result with an empty bucket and a bucket whose cost_micros is not 0
C6_Witness ==
  /\ IntervalDone
  /\ \E i, j \in 1..Len(buckets) :
       /\ buckets[i].messages = 0
       /\ buckets[j].messages > 0 /\ buckets[j].cost_micros > 0

\* the arithmetic sum of the five counters of a breakdown
CounterSum(tb) == tb.input + tb.output + tb.cache_read + tb.cache_write + tb.reasoning

\* C12: a bucket with messages has avg_tokens_per_min = total tokens /
\* (width / 60000), min <= avg <= max, and max = min = avg for one message
C12_RateStatsBounds ==
  IntervalReturned =>
    \A i \in 1..Len(buckets) :
      buckets[i].messages > 0 =>
        LET rs == buckets[i].rate_stats
        IN  /\ rs.kind = "Some"
            /\ rs.avg_tokens_per_min =
                 Rat(CounterSum(buckets[i].token_breakdown) * MS_PER_MINUTE, interval_ms)
            /\ RatLeq(rs.min_tokens_per_min, rs.avg_tokens_per_min)
            /\ RatLeq(rs.avg_tokens_per_min, rs.max_tokens_per_min)
            /\ buckets[i].messages = 1 =>
                 /\ rs.max_tokens_per_min = rs.avg_tokens_per_min
                 /\ rs.min_tokens_per_min = rs.avg_tokens_per_min

\* the buckets that hold exactly two messages less than MIN_DT_MS apart
ShortGapBuckets ==
  {i \in 1..Len(buckets) :
     /\ buckets[i].start_ms \in DOMAIN bucket_map
     /\ LET data == bucket_map[buckets[i].start_ms].message_data
        IN  /\ Len(data) = 2
            /\ Abs(data[1][1] - data[2][1]) < MIN_DT_MS}

\* the tokens of the later of the two messages of such a bucket (of the
\* larger one when the timestamps are equal)
LaterTokens(i) ==
  LET data == bucket_map[buckets[i].start_ms].message_data
  IN  IF data[1][1] < data[2][1] THEN data[2][2]
      ELSE IF data[2][1] < data[1][1] THEN data[1][2]
      ELSE Max2(data[1][2], data[2][2])

\* the rate of that message over the floor gap of MIN_DT_MS
FloorRate(i) == Rat(LaterTokens(i) * MS_PER_MINUTE, MIN_DT_MS)

\* C13 as stated: with two messages less than 5000 ms apart in a bucket,
\* max_tokens_per_min does not exceed the later message's rate over 5000 ms
C13_MaxWithinFloorRate ==
  IntervalReturned =>
    \A i \in ShortGapBuckets :
      RatLeq(buckets[i].rate_stats.max_tokens_per_min, FloorRate(i))

\* C13 amended: max_tokens_per_min does not exceed the larger of that rate
\* and the bucket's avg_tokens_per_min
C13_MaxWithinFloorRateOrAvg ==
  IntervalReturned =>
    \A i \in ShortGapBuckets :
      RatLeq(buckets[i].rate_stats.max_tokens_per_min,
             F64Max2(FloorRate(i), buckets[i].rate_stats.avg_tokens_per_min))

\* two messages at different times less than 5000 ms apart in a bucket whose
\* average rate is above the floor rate of the later one
C13_Witness ==
  /\ IntervalReturned
  /\ \E i \in ShortGapBuckets :
       LET data == bucket_map[buckets[i].start_ms].message_data
       IN  /\ data[1][1] # data[2][1]
           /\ Min2(data[1][1], data[2][1]) >= 0
           /\ RatLess(FloorRate(i), buckets[i].rate_stats.avg_tokens_per_min)
           /\ buckets[i].rate_stats.max_tokens_per_min =
                buckets[i].rate_stats.avg_tokens_per_min

\* C14: no addition of token counts overflows or wraps: the aggregation never
\* panics on an addition and the total behind avg_tokens_per_min is the sum of
\* the bucket's counters clamped at the top of the counter range
C14_TokenSumsClamp ==
  /\ pc # "interval_panic"
  /\ IntervalReturned =>
       \A i \in 1..Len(buckets) :
         buckets[i].messages > 0 =>
           buckets[i].rate_stats.avg_tokens_per_min =
             Rat(Min2(I64Max, CounterSum(buckets[i].token_breakdown)) * MS_PER_MINUTE,
                 interval_ms)

\* C15: no division of the aggregation has a zero divisor
C15_NoZeroDivisor == pc # "interval_div_by_zero"

\* the cost of a bucket in micro-units rounded to the nearest integer
\* (costs are not negative; a half rounds up)
RoundedMicros(cost) == (2 * cost + QuantaPerMicro) \div (2 * QuantaPerMicro)

\* C16: cost_micros of a returned bucket is its summed cost times 1,000,000
\* rounded to the nearest integer
C16_CostMicrosRounded ==
  IntervalReturned =>
    \A i \in 1..Len(buckets) :
      LET ms == MessagesOfBucket(buckets[i].start_ms)
      IN  buckets[i].cost_micros =
            RoundedMicros(SetSum(ms, [m \in ms |-> messages[m].cost]))

(***************************************************************************)
(* aggregate_by_interval at the ends of the ranges of width and timestamp  *)
(***************************************************************************)
\* a width in the upper part of the i64 range, 2^63 (i64::MIN after the
\* cast) and u64::MAX (-1 after the cast)
WideWidths == {12000, TimestampMax + 1, 2 * TimestampMax + 1}

\* two timestamps near the epoch and one near the top of the range
WideMessages ==
  { TestMessage(100, PayloadSmall),
    TestMessage(5000, PayloadMixed),
    TestMessage(16000, PayloadSmall) }

InitWide ==
  /\ messages \in SeqsUpTo(WideMessages, MaxMsgs)
  /\ interval_ms \in WideWidths
  /\ overflow_checks \in BOOLEAN
  /\ pc = "interval_call"
  /\ parts = << >>
  /\ range = Idle
  /\ bucket_map = EmptyMap
  /\ current = 0
  /\ buckets = << >>
  /\ contributions = Idle
  /\ models = Idle
  /\ lookup = Idle
  /\ summary = Idle
  /\ years = Idle
  /\ accs = Idle
  /\ merged = Idle

SpecWide == InitWide /\ [][NextInterval]_vars

\* the calls that ended without a result: a panic or a failed allocation
IntervalAborted ==
  pc \in {"interval_panic", "interval_alloc_failure", "interval_div_by_zero"}

\* (last_bucket - first_bucket) / width + 1 for the buckets of the smallest
\* and the largest timestamp
ExpectedBuckets ==
  LET first == (MinTimestamp(messages) \div interval_ms) * interval_ms
      last  == (MaxTimestamp(messages) \div interval_ms) * interval_ms
  IN  (last - first) \div interval_ms + 1

\* C24: for a non-empty collection and a positive width the call does not
\* abort, the gap-filling loop never holds more than (last_bucket -
\* first_bucket) / width + 1 buckets nor a start or an end outside the
\* buckets of the input, and the call returns exactly that many buckets
C24_FillTerminates ==
  (messages # << >> /\ interval_ms > 0) =>
    /\ ~IntervalAborted
    /\ Len(buckets) <= ExpectedBuckets
    /\ \A i \in 1..Len(buckets) :
         /\ buckets[i].start_ms >= 0
         /\ buckets[i].end_ms = buckets[i].start_ms + interval_ms
    /\ IntervalDone => Len(buckets) = ExpectedBuckets

(***************************************************************************)
(* DayAccumulator                                                          *)
(***************************************************************************)
\* "2024-12-31"
STR_2024_12_31 == <<50,48,50,52,45,49,50,45,51,49>>
\* "2025-01-01"
STR_2025_01_01 == <<50,48,50,53,45,48,49,45,48,49>>
\* "2025-01-02"
STR_2025_01_02 == <<50,48,50,53,45,48,49,45,48,50>>
\* "claude"
STR_claude == <<99,108,97,117,100,101>>
\* "cursor"
STR_cursor == <<99,117,114,115,111,114>>
\* "opus-4"
STR_opus_4 == <<111,112,117,115,45,52>>
\* "gpt-4o"
STR_gpt_4o == <<103,112,116,45,52,111>>
\* "anthropic"
STR_anthropic == <<97,110,116,104,114,111,112,105,99>>
\* "bedrock"
STR_bedrock == <<98,101,100,114,111,99,107>>
\* ":"
STR_colon == <<58>>

\* String::cmp: byte-wise lexicographic order, a proper prefix is smaller
RECURSIVE StrLess(_, _)
StrLess(a, b) ==
  IF b = << >> THEN FALSE
  ELSE IF a = << >> THEN TRUE
  ELSE IF Head(a) # Head(b) THEN Head(a) < Head(b)
  ELSE StrLess(Tail(a), Tail(b))

I32_MAX == 2147483647
\* i32::saturating_add on message counts (counts are never negative)
SaturatingAddI32(a, b) == IF a + b > I32_MAX THEN I32_MAX ELSE a + b

DailyTotalsDefault == [tokens |-> 0, cost |-> 0, messages |-> 0]

DayAccumulatorDefault ==
  [totals |-> DailyTotalsDefault, token_breakdown |-> TokenBreakdownDefault,
   sources |-> EmptyMap]

\* format!("{}:{}", msg.source, msg.model_id)
SourceKey(source, model_id) == source \o STR_colon \o model_id

SourceContribution(source, model_id, provider_id) ==
  [source |-> source, model_id |-> model_id, provider_id |-> provider_id,
   tokens |-> TokenBreakdownDefault, cost |-> 0, messages |-> 0]

DayAddMessage(acc, msg) ==
  LET total_tokens == MessageTotalTokens(msg.tokens)
      key   == SourceKey(msg.source, msg.model_id)
      entry == IF key \in DOMAIN acc.sources THEN acc.sources[key]
               ELSE SourceContribution(msg.source, msg.model_id, msg.provider_id)
      updated == [entry EXCEPT
                    !.tokens   = BreakdownSaturatingAdd(entry.tokens, msg.tokens),
                    !.cost     = F64Add(entry.cost, msg.cost),
                    !.messages = SaturatingAddI32(entry.messages, 1)]
  IN  [totals |-> [tokens   |-> SaturatingAdd(acc.totals.tokens, total_tokens),
                   cost     |-> F64Add(acc.totals.cost, msg.cost),
                   messages |-> SaturatingAddI32(acc.totals.messages, 1)],
       token_breakdown |-> BreakdownSaturatingAdd(acc.token_breakdown, msg.tokens),
       sources |-> MapUpsert(acc.sources, key, updated)]

\* variant: an entry of the other accumulator replaces the entry of the key
DayMergeSources_Insert(mine, theirs) ==
  [k \in DOMAIN mine \cup DOMAIN theirs |->
     IF k \in DOMAIN theirs THEN theirs[k] ELSE mine[k]]

\* the loop of merge over other.sources: the keys are distinct, so the
\* iteration order of the map does not show
DayMergeSources(mine, theirs) ==
  [k \in DOMAIN mine \cup DOMAIN theirs |->
     IF k \in DOMAIN theirs
     THEN LET source == theirs[k]
              entry  == IF k \in DOMAIN mine THEN mine[k]
                        ELSE SourceContribution(source.source, source.model_id,
                                                source.provider_id)
          IN  [entry EXCEPT
                 !.tokens   = BreakdownSaturatingAdd(entry.tokens, source.tokens),
                 !.cost     = F64Add(entry.cost, source.cost),
                 !.messages = SaturatingAddI32(entry.messages, source.messages)]
     ELSE mine[k]]

\* variant: the cost of the other accumulator is not added to the totals
DayMerge_CostNotMerged(acc, other) ==
  [totals |-> [tokens   |-> SaturatingAdd(acc.totals.tokens, other.totals.tokens),
               cost     |-> acc.totals.cost,
               messages |-> SaturatingAddI32(acc.totals.messages, other.totals.messages)],
   token_breakdown |-> BreakdownSaturatingAdd(acc.token_breakdown, other.token_breakdown),
   sources |-> DayMergeSources(acc.sources, other.sources)]

DayMerge(acc, other) ==
  [totals |-> [tokens   |-> SaturatingAdd(acc.totals.tokens, other.totals.tokens),
               cost     |-> F64Add(acc.totals.cost, other.totals.cost),
               messages |-> SaturatingAddI32(acc.totals.messages, other.totals.messages)],
   token_breakdown |-> BreakdownSaturatingAdd(acc.token_breakdown, other.token_breakdown),
   sources |-> DayMergeSources(acc.sources, other.sources)]

\* sources.into_values().collect(): the entries without their keys, in no order
IntoContribution(acc, date) ==
  [date |-> date, totals |-> acc.totals, intensity |-> 0,
   token_breakdown |-> acc.token_breakdown,
   sources |-> {acc.sources[k] : k \in DOMAIN acc.sources}]

\* the fold closure of aggregate_by_date
DateFoldOp(map, msg) ==
  LET old == IF msg.date \in DOMAIN map THEN map[msg.date] ELSE DayAccumulatorDefault
  IN  MapUpsert(map, msg.date, DayAddMessage(old, msg))

\* the reduce closure of aggregate_by_date
DateReduceOp(a, b) ==
  [k \in DOMAIN a \cup DOMAIN b |->
     IF k \in DOMAIN b
     THEN DayMerge(IF k \in DOMAIN a THEN a[k] ELSE DayAccumulatorDefault, b[k])
     ELSE a[k]]

\* variant: the comparison of the sort is reversed
RECURSIVE SortByDate_Reversed(_)
SortByDate_Reversed(cs) ==
  IF cs = {} THEN << >>
  ELSE LET greatest == CHOOSE c \in cs : \A d \in cs : ~StrLess(c.date, d.date)
       IN  <<greatest>> \o SortByDate_Reversed(cs \ {greatest})

\* contributions.sort_by(|a, b| a.date.cmp(&b.date)) applied to the
\* contributions of a map: the dates are distinct keys, the least comes first
RECURSIVE SortByDate(_)
SortByDate(cs) ==
  IF cs = {} THEN << >>
  ELSE LET least == CHOOSE c \in cs : \A d \in cs : ~StrLess(d.date, c.date)
       IN  <<least>> \o SortByDate(cs \ {least})

\* contributions.iter().map(|c| c.totals.cost).fold(0.0, f64::max)
RECURSIVE MaxCost(_)
MaxCost(cs) ==
  IF cs = << >> THEN 0
  ELSE Max2(MaxCost(SubSeq(cs, 1, Len(cs) - 1)), cs[Len(cs)].totals.cost)

\* variant: the thresholds are compared with > instead of >=
IntensityOfRatio_Strict(ratio) ==
  IF RatLess(Rat(3, 4), ratio) THEN 4
  ELSE IF RatLess(Rat(1, 2), ratio) THEN 3
  ELSE IF RatLess(Rat(1, 4), ratio) THEN 2
  ELSE IF RatLess(RatZero, ratio) THEN 1
  ELSE 0

\* the if-chain on ratio = cost / max_cost
IntensityOfRatio(ratio) ==
  IF RatLeq(Rat(3, 4), ratio) THEN 4
  ELSE IF RatLeq(Rat(1, 2), ratio) THEN 3
  ELSE IF RatLeq(Rat(1, 4), ratio) THEN 2
  ELSE IF RatLess(RatZero, ratio) THEN 1
  ELSE 0

\* variant: the loop over the contributions misses the first one
CalculateIntensities_SkipFirst(cs) ==
  LET max_cost == MaxCost(cs)
  IN  IF max_cost = 0 THEN cs
      ELSE [i \in 1..Len(cs) |->
              IF i = 1 THEN cs[i]
              ELSE [cs[i] EXCEPT
                      !.intensity = IntensityOfRatio(Rat(cs[i].totals.cost, max_cost))]]

CalculateIntensities(cs) ==
  LET max_cost == MaxCost(cs)
  IN  IF max_cost = 0 THEN cs
      ELSE [i \in 1..Len(cs) |->
              [cs[i] EXCEPT !.intensity = IntensityOfRatio(Rat(cs[i].totals.cost, max_cost))]]

(***************************************************************************)
(* aggregate_by_date                                                       *)
(***************************************************************************)
DAY_MS == 24 * 60 * 60 * 1000

DateMessage(date, ts, p, source, model, provider) ==
  UnifiedMessage(ts, date, p.tokens, p.cost, source, model, provider)

PayloadFree == [tokens |-> TokenBreakdown(1, 0, 2, 0, 1), cost |-> 0]
PayloadCost1 == [tokens |-> TokenBreakdown(2, 1, 0, 3, 0), cost |-> 1]
PayloadCost2 == [tokens |-> TokenBreakdown(I64Max - 1, 0, 0, 0, 0), cost |-> 2]
PayloadCost3 == [tokens |-> TokenBreakdown(0, 2, 0, 0, 1), cost |-> 3]
PayloadCost4 == [tokens |-> TokenBreakdown(1, 0, 2, 0, 1), cost |-> 4]

\* three days over a year boundary; the timestamp of a message need not lie
\* in the day its date names
DateMessages ==
  { DateMessage(STR_2025_01_02, 0, PayloadCost4, STR_claude, STR_opus_4, STR_anthropic),
    DateMessage(STR_2025_01_02, 3 * DAY_MS, PayloadFree, STR_claude, STR_opus_4, STR_bedrock),
    DateMessage(STR_2025_01_01, 0, PayloadCost1, STR_cursor, STR_gpt_4o, STR_anthropic),
    DateMessage(STR_2025_01_01, DAY_MS, PayloadCost2, STR_claude, STR_opus_4, STR_anthropic),
    DateMessage(STR_2024_12_31, DAY_MS, PayloadCost3, STR_cursor, STR_opus_4, STR_bedrock),
    DateMessage(STR_2024_12_31, 0, PayloadFree, STR_cursor, STR_gpt_4o, STR_bedrock) }

InitDate ==
  /\ messages \in SeqsUpTo(DateMessages, MaxMsgs)
  /\ interval_ms = 0
  /\ overflow_checks = FALSE
  /\ pc = "date_call"
  /\ parts = << >>
  /\ range = Idle
  /\ bucket_map = EmptyMap
  /\ current = 0
  /\ buckets = << >>
  /\ contributions = << >>
  /\ models = Idle
  /\ lookup = Idle
  /\ summary = Idle
  /\ years = Idle
  /\ accs = Idle
  /\ merged = Idle

\* lines 111-116
DateCall ==
  /\ pc = "date_call"
  /\ IF messages = << >>
     THEN pc' = "date_done" /\ UNCHANGED parts
     ELSE pc' = "date_fold" /\ parts' = << Part(messages) >>
  /\ UNCHANGED <<summary, years, accs, merged, messages, interval_ms, overflow_checks, range, bucket_map, current,
                 buckets, contributions, models, lookup>>

DateSplit ==
  /\ pc = "date_fold"
  /\ \E i \in 1..Len(parts) : \E k \in 1..MaxMsgs :
       /\ CanSplit(parts, i, k)
       /\ parts' = SplitParts(parts, i, k)
  /\ UNCHANGED <<summary, years, accs, merged, messages, interval_ms, overflow_checks, pc, range, bucket_map,
                 current, buckets, contributions, models, lookup>>

\* lines 123-127
DateFold ==
  /\ pc = "date_fold"
  /\ \E i \in 1..Len(parts) :
       /\ CanFold(parts, i)
       /\ parts' = [parts EXCEPT
                      ![i] = [todo    |-> Tail(parts[i].todo),
                              acc     |-> DateFoldOp(parts[i].acc, Head(parts[i].todo)),
                              started |-> TRUE,
                              merges  |-> 0]]
  /\ UNCHANGED <<summary, years, accs, merged, messages, interval_ms, overflow_checks, pc, range, bucket_map,
                 current, buckets, contributions, models, lookup>>

\* lines 131-136
DateReduce ==
  /\ pc = "date_fold"
  /\ \E i \in 1..Len(parts) :
       /\ CanReduce(parts, i)
       /\ parts' = ReplaceTwo(parts, i,
                      Reduced(parts[i], parts[i + 1],
                              DateReduceOp(parts[i].acc, parts[i + 1].acc)))
  /\ UNCHANGED <<summary, years, accs, merged, messages, interval_ms, overflow_checks, pc, range, bucket_map,
                 current, buckets, contributions, models, lookup>>

\* lines 139-149: conversion, sort and intensities
ContributionsOf(daily_map) ==
  CalculateIntensities(
    SortByDate({IntoContribution(daily_map[d], d) : d \in DOMAIN daily_map}))

DateFinish ==
  /\ pc = "date_fold"
  /\ AllFolded(parts)
  /\ contributions' = ContributionsOf(parts[1].acc)
  /\ pc' = "date_done"
  /\ UNCHANGED <<summary, years, accs, merged, messages, interval_ms, overflow_checks, parts, range, bucket_map,
                 current, buckets, models, lookup>>

NextDate ==
  \/ DateCall
  \/ DateSplit
  \/ DateFold
  \/ DateReduce
  \/ DateFinish

SpecDate == InitDate /\ [][NextDate]_vars

\* either aggregation, on its own inputs
InitAgg == InitInterval \/ InitDate
NextAgg == NextInterval \/ NextDate
SpecAgg == InitAgg /\ [][NextAgg]_vars

(***************************************************************************)
(* Properties of aggregate_by_date                                         *)
(***************************************************************************)
DateDone == pc = "date_done"
DateReturned == DateDone /\ messages # << >>

InputDates == {messages[i].date : i \in 1..Len(messages)}
MessagesOfDate(d) == {i \in 1..Len(messages) : messages[i].date = d}

RECURSIVE DateSequential(_)
DateSequential(msgs) ==
  IF msgs = << >> THEN EmptyMap
  ELSE DateFoldOp(DateSequential(SubSeq(msgs, 1, Len(msgs) - 1)), msgs[Len(msgs)])

\* the counters of the per-(source, model) entries, by key
SourceCounters(srcs) ==
  {<<SourceKey(e.source, e.model_id), e.tokens, e.messages>> : e \in srcs}

\* C1: whatever the splits, the order inside a split and the order of the
\* reductions, the token counters and message counts of every bucket and of
\* every day are those of the sequential fold of the messages in any order
C1_PartitionIndependent ==
  /\ IntervalReturned =>
       \A p \in Perms(Len(messages)) :
         LET ref == IntervalSequential(Permute(messages, p), interval_ms)
         IN  /\ DOMAIN ref \subseteq BucketStarts
             /\ \A i \in 1..Len(buckets) :
                  LET r == IF buckets[i].start_ms \in DOMAIN ref
                           THEN ref[buckets[i].start_ms]
                           ELSE IntervalAccumulatorDefault
                  IN  /\ buckets[i].token_breakdown = r.token_breakdown
                      /\ buckets[i].messages = r.messages
                      /\ buckets[i].cost_micros = CostMicros(r.cost)
  /\ DateReturned =>
       \A p \in Perms(Len(messages)) :
         LET ref == DateSequential(Permute(messages, p))
         IN  /\ {contributions[i].date : i \in 1..Len(contributions)} = DOMAIN ref
             /\ \A i \in 1..Len(contributions) :
                  LET c == contributions[i]
                      r == ref[c.date]
                  IN  /\ c.totals = r.totals
                      /\ c.token_breakdown = r.token_breakdown
                      /\ SourceCounters(c.sources) =
                           SourceCounters({r.sources[k] : k \in DOMAIN r.sources})

\* a result reduced from three splits in which a counter reached the top of
\* the counter range
C1_Witness ==
  /\ IntervalReturned \/ DateReturned
  /\ parts[1].merges >= 2
  /\ \/ \E i \in 1..Len(buckets) :
          buckets[i].messages >= 2 /\ buckets[i].token_breakdown.input = I64Max
     \/ \E i \in 1..Len(contributions) :
          contributions[i].totals.messages >= 2 /\ contributions[i].totals.tokens = I64Max

\* C9: one contribution per distinct date of the input, holding the messages
\* with that date, in strictly ascending order of date
C9_OneContributionPerDate ==
  DateDone =>
    /\ {contributions[i].date : i \in 1..Len(contributions)} = InputDates
    /\ Len(contributions) = Cardinality(InputDates)
    /\ \A i \in 1..Len(contributions) :
         contributions[i].totals.messages = Cardinality(MessagesOfDate(contributions[i].date))
    /\ \A i \in 1..(Len(contributions) - 1) :
         StrLess(contributions[i].date, contributions[i + 1].date)

\* three days handed over in descending order of date, one of them holding a
\* message whose timestamp lies outside the day
C9_Witness ==
  /\ DateDone
  /\ Len(contributions) = 3
  /\ StrLess(messages[2].date, messages[1].date)
  /\ \E i \in 1..Len(messages) : messages[i].timestamp >= 3 * DAY_MS

DayCosts == {contributions[i].totals.cost : i \in 1..Len(contributions)}
LargestDayCost == CHOOSE m \in DayCosts : \A c \in DayCosts : c <= m

\* C10: the intensity of a day is the quarter of the largest daily cost its
\* cost falls in; all-zero costs leave every intensity at 0
C10_IntensityBands ==
  DateReturned =>
    \A i \in 1..Len(contributions) :
      LET c == contributions[i].totals.cost
          m == LargestDayCost
          k == contributions[i].intensity
      IN  /\ c = 0 => k = 0
          /\ (0 < c /\ 4 * c < m) => k = 1
          /\ (m <= 4 * c /\ 2 * c < m) => k = 2
          /\ (m <= 2 * c /\ 4 * c < 3 * m) => k = 3
          /\ (3 * m <= 4 * c /\ c <= m /\ c > 0) => k = 4
          /\ m = 0 => k = 0

\* days at cost 0, at a quarter and at the whole of the largest daily cost
C10_Witness ==
  /\ DateReturned
  /\ \E i, j, k \in 1..Len(contributions) :
       /\ contributions[i].totals.cost = 0
       /\ contributions[j].totals.cost > 0
       /\ 4 * contributions[j].totals.cost = contributions[k].totals.cost
       /\ contributions[k].totals.cost = LargestDayCost

\* C11: within one result a day that costs no more than another has no
\* higher intensity, and every intensity is one of 0..4
C11_IntensityMonotone ==
  DateDone =>
    /\ \A i \in 1..Len(contributions) : contributions[i].intensity \in 0..4
    /\ \A i, j \in 1..Len(contributions) :
         contributions[i].totals.cost <= contributions[j].totals.cost
           => contributions[i].intensity <= contributions[j].intensity

\* three days of three different costs, two of them in one intensity band and
\* the third in a lower one
C11_Witness ==
  /\ DateReturned
  /\ \E i, j, k \in 1..Len(contributions) :
       /\ contributions[i].totals.cost < contributions[j].totals.cost
       /\ contributions[j].totals.cost < contributions[k].totals.cost
       /\ contributions[i].intensity < contributions[j].intensity
       /\ contributions[j].intensity = contributions[k].intensity

(***************************************************************************)
(* calculate_summary, calculate_years, generate_graph_result               *)
(***************************************************************************)
\* contributions.iter().map(|c| c.totals.tokens).sum(): the plain i64 `+`,
\* left to right over the first i contributions
RECURSIVE SumTokens(_, _)
SumTokens(cs, i) ==
  IF i = 0 THEN [value |-> 0, overflow |-> FALSE]
  ELSE LET prev == SumTokens(cs, i - 1)
       IN  [value    |-> WrappingAdd(prev.value, cs[i].totals.tokens),
            overflow |-> prev.overflow \/ AddOverflows(prev.value, cs[i].totals.tokens)]

\* contributions.iter().map(|c| c.totals.cost).sum()
RECURSIVE SumCost(_, _)
SumCost(cs, i) ==
  IF i = 0 THEN 0 ELSE F64Add(SumCost(cs, i - 1), cs[i].totals.cost)

\* variant: a day of cost 0 counts as active
ActiveDays_CountsAll(cs) == Cardinality({i \in 1..Len(cs) : cs[i].totals.cost >= 0})

\* contributions.iter().filter(|c| c.totals.cost > 0.0).count()
ActiveDays(cs) == Cardinality({i \in 1..Len(cs) : cs[i].totals.cost > 0})

SummaryPanic == [kind |-> "Panic"]

CalculateSummary(cs, checks) ==
  LET total_tokens == SumTokens(cs, Len(cs))
      total_cost   == SumCost(cs, Len(cs))
      active_days  == ActiveDays(cs)
  IN  IF checks /\ total_tokens.overflow THEN SummaryPanic
      ELSE [kind |-> "DataSummary",
            total_tokens |-> total_tokens.value,
            total_cost   |-> total_cost,
            total_days   |-> Len(cs),
            active_days  |-> active_days,
            average_per_day |-> IF active_days > 0 THEN Rat(total_cost, active_days)
                                ELSE RatZero,
            max_cost_in_single_day |-> MaxCost(cs),
            sources |-> UNION {{e.source : e \in cs[i].sources} : i \in 1..Len(cs)},
            models  |-> UNION {{e.model_id : e \in cs[i].sources} : i \in 1..Len(cs)}]

YearAccumulatorDefault == [tokens |-> 0, cost |-> 0, start |-> << >>, end |-> << >>]

\* &c.date[0..4]
YearOf(date) == SubSeq(date, 1, 4)

\* the body of the loop of calculate_years for one contribution
YearsStep(map, c) ==
  LET year  == YearOf(c.date)
      entry == IF year \in DOMAIN map THEN map[year] ELSE YearAccumulatorDefault
  IN  MapUpsert(map, year,
        [tokens |-> WrappingAdd(entry.tokens, c.totals.tokens),
         cost   |-> F64Add(entry.cost, c.totals.cost),
         start  |-> IF entry.start = << >> \/ StrLess(c.date, entry.start)
                    THEN c.date ELSE entry.start,
         end    |-> IF entry.end = << >> \/ StrLess(entry.end, c.date)
                    THEN c.date ELSE entry.end])

\* years_map after the first i contributions, and whether a += overflowed
RECURSIVE YearsFold(_, _)
YearsFold(cs, i) ==
  IF i = 0 THEN [map |-> EmptyMap, overflow |-> FALSE]
  ELSE LET prev  == YearsFold(cs, i - 1)
           year  == YearOf(cs[i].date)
           sofar == IF year \in DOMAIN prev.map THEN prev.map[year].tokens ELSE 0
       IN  [map      |-> YearsStep(prev.map, cs[i]),
            overflow |-> prev.overflow \/ AddOverflows(sofar, cs[i].totals.tokens)]

YearSummary(year, acc) ==
  [year |-> year, total_tokens |-> acc.tokens, total_cost |-> acc.cost,
   range_start |-> acc.start, range_end |-> acc.end]

\* variant: the comparison of the sort is reversed
RECURSIVE SortByYear_Reversed(_)
SortByYear_Reversed(ys) ==
  IF ys = {} THEN << >>
  ELSE LET greatest == CHOOSE y \in ys : \A z \in ys : ~StrLess(y.year, z.year)
       IN  <<greatest>> \o SortByYear_Reversed(ys \ {greatest})

\* years.sort_by(|a, b| a.year.cmp(&b.year)): the years are distinct keys
RECURSIVE SortByYear(_)
SortByYear(ys) ==
  IF ys = {} THEN << >>
  ELSE LET least == CHOOSE y \in ys : \A z \in ys : ~StrLess(z.year, y.year)
       IN  <<least>> \o SortByYear(ys \ {least})

YearsPanic == [kind |-> "Panic"]

CalculateYears(cs, checks) ==
  LET folded == YearsFold(cs, Len(cs))
  IN  IF checks /\ folded.overflow THEN YearsPanic
      ELSE [kind |-> "Years",
            list |-> SortByYear({YearSummary(y, folded.map[y]) : y \in DOMAIN folded.map})]

\* the contributions handed over are those of aggregate_by_date for some
\* messages, in any order: both functions take a slice and do not rely on
\* its order
InitGraph ==
  /\ messages \in SeqsUpTo(DateMessages, MaxMsgs)
  /\ \E p \in Perms(Cardinality(InputDates)) :
       contributions = Permute(ContributionsOf(DateSequential(messages)), p)
  /\ overflow_checks \in BOOLEAN
  /\ pc = "graph_call"
  /\ summary = Idle
  /\ years = Idle
  /\ interval_ms = 0
  /\ parts = << >>
  /\ range = Idle
  /\ bucket_map = EmptyMap
  /\ current = 0
  /\ buckets = << >>
  /\ models = Idle
  /\ lookup = Idle
  /\ accs = Idle
  /\ merged = Idle

\* line 224
GraphSummary ==
  /\ pc = "graph_call"
  /\ summary' = CalculateSummary(contributions, overflow_checks)
  /\ pc' = IF summary' = SummaryPanic THEN "graph_panic" ELSE "graph_years"
  /\ UNCHANGED <<years, accs, merged, messages, interval_ms, overflow_checks, parts,
                 range, bucket_map, current, buckets, contributions, models, lookup>>

\* line 225
GraphYears ==
  /\ pc = "graph_years"
  /\ years' = CalculateYears(contributions, overflow_checks)
  /\ pc' = IF years' = YearsPanic THEN "graph_panic" ELSE "graph_done"
  /\ UNCHANGED <<summary, accs, merged, messages, interval_ms, overflow_checks, parts,
                 range, bucket_map, current, buckets, contributions, models, lookup>>

NextGraph ==
  \/ GraphSummary
  \/ GraphYears

SpecGraph == InitGraph /\ [][NextGraph]_vars

(***************************************************************************)
(* Properties of calculate_summary and calculate_years                     *)
(***************************************************************************)
SummaryReturned == pc \in {"graph_years", "graph_done"}
YearsReturned == pc = "graph_done"

Days == 1..Len(contributions)
DaysOfYear(y) == {i \in Days : YearOf(contributions[i].date) = y}
InputYears == {YearOf(contributions[i].date) : i \in Days}

\* C17: total_days counts the contributions, active_days those of cost > 0,
\* average_per_day is total_cost / active_days (0 without active day), and
\* max_cost_in_single_day is at least every day's cost
C17_SummaryCounts ==
  SummaryReturned =>
    LET active == {i \in Days : contributions[i].totals.cost > 0}
        total_cost == SetSum(Days, [i \in Days |-> contributions[i].totals.cost])
    IN  /\ summary.total_days = Len(contributions)
        /\ summary.active_days = Cardinality(active)
        /\ summary.active_days <= summary.total_days
        /\ summary.total_cost = total_cost
        /\ IF active = {} THEN summary.average_per_day = RatZero
           ELSE /\ summary.average_per_day.n * Cardinality(active)
                     = total_cost * summary.average_per_day.d
                /\ summary.average_per_day.d > 0
        /\ \A i \in Days : contributions[i].totals.cost <= summary.max_cost_in_single_day

\* a summary of three days, one of them without cost, whose average is not a
\* whole number of cost units
C17_Witness ==
  /\ SummaryReturned
  /\ summary.total_days = 3
  /\ summary.active_days = 2
  /\ summary.average_per_day.d = 2

\* C18: one YearSummary per distinct 4-character date prefix, strictly
\* ascending by year; total_tokens is the sum over the year's contributions,
\* range_start / range_end are its smallest / largest date, and the years'
\* total_tokens sum to the summary's total_tokens
C18_YearSummaries ==
  YearsReturned =>
    LET ys == years.list
    IN  /\ {ys[k].year : k \in 1..Len(ys)} = InputYears
        /\ Len(ys) = Cardinality(InputYears)
        /\ \A k \in 1..(Len(ys) - 1) : StrLess(ys[k].year, ys[k + 1].year)
        /\ \A k \in 1..Len(ys) :
             LET ds == DaysOfYear(ys[k].year)
             IN  /\ ys[k].total_tokens =
                      SetSum(ds, [i \in ds |-> contributions[i].totals.tokens])
                 /\ \E i \in ds : contributions[i].date = ys[k].range_start
                 /\ \E i \in ds : contributions[i].date = ys[k].range_end
                 /\ \A i \in ds :
                      /\ ~StrLess(contributions[i].date, ys[k].range_start)
                      /\ ~StrLess(ys[k].range_end, contributions[i].date)
                 /\ ~StrLess(ys[k].range_end, ys[k].range_start)
                 /\ YearOf(ys[k].range_start) = ys[k].year
                 /\ YearOf(ys[k].range_end) = ys[k].year
        /\ SetSum(1..Len(ys), [k \in 1..Len(ys) |-> ys[k].total_tokens])
             = summary.total_tokens

(***************************************************************************)
(* The accumulators under add_message and merge                            *)
(***************************************************************************)
\* a message whose cost needs every bit of the significand
PayloadExpensive ==
  [tokens |-> TokenBreakdown(0, 2, 0, 0, 1), cost |-> Pow2(MantissaBits)]

\* two messages of one (source, model) with different providers, one whose
\* tokens reach the top of the counter range, one with the large cost
DayMessages ==
  { DateMessage(STR_2025_01_01, 0, PayloadCost1, STR_claude, STR_opus_4, STR_anthropic),
    DateMessage(STR_2025_01_01, 0, PayloadCost1, STR_claude, STR_opus_4, STR_bedrock),
    DateMessage(STR_2025_01_01, 0, PayloadCost2, STR_cursor, STR_gpt_4o, STR_anthropic),
    DateMessage(STR_2025_01_01, 0, PayloadExpensive, STR_cursor, STR_gpt_4o, STR_bedrock) }

BucketMessages ==
  { TestMessage(100, PayloadSmall),
    TestMessage(100, PayloadMixed),
    TestMessage(500, PayloadLarge),
    TestMessage(900, PayloadExpensive) }

AccKinds == {"DayAccumulator", "IntervalAccumulator"}
AccNames == {"a", "b", "c"}

AccDefault(kind) ==
  IF kind = "DayAccumulator" THEN DayAccumulatorDefault ELSE IntervalAccumulatorDefault
AccMessages(kind) ==
  IF kind = "DayAccumulator" THEN DayMessages ELSE BucketMessages
AccAdd(kind, acc, msg) ==
  IF kind = "DayAccumulator" THEN DayAddMessage(acc, msg) ELSE IntervalAddMessage(acc, msg)
AccMergeOp(kind, acc, other) ==
  IF kind = "DayAccumulator" THEN DayMerge(acc, other) ELSE IntervalMerge(acc, other)

\* three default accumulators of one kind
InitMerge ==
  /\ \E kind \in AccKinds :
       accs = [kind |-> kind, a |-> AccDefault(kind), b |-> AccDefault(kind),
               c |-> AccDefault(kind), added |-> 0]
  /\ merged = Idle
  /\ pc = "merge"
  /\ messages = << >>
  /\ interval_ms = 0
  /\ overflow_checks = FALSE
  /\ parts = << >>
  /\ range = Idle
  /\ bucket_map = EmptyMap
  /\ current = 0
  /\ buckets = << >>
  /\ contributions = << >>
  /\ models = Idle
  /\ lookup = Idle
  /\ summary = Idle
  /\ years = Idle

\* add_message on one of the accumulators
AccAddMessage ==
  /\ pc = "merge"
  /\ accs.added < MaxMsgs
  /\ \E name \in AccNames : \E msg \in AccMessages(accs.kind) :
       accs' = [accs EXCEPT ![name] = AccAdd(accs.kind, accs[name], msg),
                            !.added = accs.added + 1]
  /\ merged' = Idle
  /\ UNCHANGED <<summary, years, messages, interval_ms, overflow_checks, parts, pc,
                 range, bucket_map, current, buckets, contributions, models, lookup>>

\* merge applied to copies of the accumulators: both orders of a and b, both
\* groupings of a, b and c, and a with a default accumulator on either side
AccMerge ==
  /\ pc = "merge"
  /\ merged = Idle
  /\ LET m(x, y) == AccMergeOp(accs.kind, x, y)
     IN  merged' = [ab    |-> m(accs.a, accs.b),
                    ba    |-> m(accs.b, accs.a),
                    ab_c  |-> m(m(accs.a, accs.b), accs.c),
                    a_bc  |-> m(accs.a, m(accs.b, accs.c)),
                    a_default |-> m(accs.a, AccDefault(accs.kind)),
                    default_a |-> m(AccDefault(accs.kind), accs.a)]
  /\ UNCHANGED <<summary, years, accs, messages, interval_ms, overflow_checks, parts,
                 pc, range, bucket_map, current, buckets, contributions, models, lookup>>

NextMerge ==
  \/ AccAddMessage
  \/ AccMerge

SpecMerge == InitMerge /\ [][NextMerge]_vars

(***************************************************************************)
(* Properties of merge                                                     *)
(***************************************************************************)
Merged == merged # Idle

\* the SourceContribution entries of a DayAccumulator
Entries(acc) == {acc.sources[k] : k \in DOMAIN acc.sources}

\* C19: merging b into a and a into b give the same totals, the same token
\* breakdown and the same SourceContribution entries, provider_id included
C19_DayMergeCommutes ==
  (Merged /\ accs.kind = "DayAccumulator") =>
    /\ merged.ab.totals = merged.ba.totals
    /\ merged.ab.token_breakdown = merged.ba.token_breakdown
    /\ Entries(merged.ab) = Entries(merged.ba)

WithoutCost(acc) ==
  IF accs.kind = "DayAccumulator"
  THEN [totals |-> [tokens |-> acc.totals.tokens, messages |-> acc.totals.messages],
        token_breakdown |-> acc.token_breakdown,
        sources |-> [k \in DOMAIN acc.sources |->
                       [source |-> acc.sources[k].source,
                        model_id |-> acc.sources[k].model_id,
                        provider_id |-> acc.sources[k].provider_id,
                        tokens |-> acc.sources[k].tokens,
                        messages |-> acc.sources[k].messages]]]
  ELSE [token_breakdown |-> acc.token_breakdown, messages |-> acc.messages,
        message_data |-> acc.message_data]

SourceWithColon == STR_claude \o STR_colon \o STR_cursor
ModelWithColon == STR_cursor \o STR_colon \o STR_gpt_4o

\* messages of one day: two of one (source, model), one whose tokens come
\* close to the top of the counter range, two whose source or model id holds
\* a ':'
SourceMessages ==
  { DateMessage(STR_2025_01_01, 0, PayloadCost1, STR_claude, STR_opus_4, STR_anthropic),
    DateMessage(STR_2025_01_01, 0, PayloadFree, STR_claude, STR_opus_4, STR_bedrock),
    DateMessage(STR_2025_01_01, 0, PayloadCost2, STR_cursor, STR_gpt_4o, STR_anthropic),
    DateMessage(STR_2025_01_01, 0, PayloadCost3, SourceWithColon, STR_gpt_4o, STR_anthropic),
    DateMessage(STR_2025_01_01, 0, PayloadFree, STR_claude, ModelWithColon, STR_anthropic) }

DayNames == {"a", "b", "c"}

\* the messages an accumulator has taken in, by add_message or through the
\* accumulators merged into it: how often each message, the order left out
NoMessages == [m \in SourceMessages |-> 0]
LogSize(log) == SetSum(DOMAIN log, log)

\* DayAccumulator::default(), three times
InitDay ==
  /\ accs = [a |-> DayAccumulatorDefault, b |-> DayAccumulatorDefault,
             c |-> DayAccumulatorDefault,
             log |-> [name \in DayNames |-> NoMessages],
             added |-> 0, last |-> [op |-> "default"]]
  /\ merged = Idle
  /\ pc = "day"
  /\ messages = << >>
  /\ interval_ms = 0
  /\ overflow_checks = FALSE
  /\ parts = << >>
  /\ range = Idle
  /\ bucket_map = EmptyMap
  /\ current = 0
  /\ buckets = << >>
  /\ contributions = << >>
  /\ models = Idle
  /\ lookup = Idle
  /\ summary = Idle
  /\ years = Idle

\* add_message on one of the accumulators
DayAdd ==
  /\ pc = "day"
  /\ accs.added < MaxMsgs
  /\ \E name \in DayNames : \E msg \in SourceMessages :
       accs' = [accs EXCEPT ![name] = DayAddMessage(accs[name], msg),
                            !.added = accs.added + 1,
                            !.log[name][msg] = @ + 1,
                            !.last = [op |-> "add_message", into |-> name]]
  /\ UNCHANGED <<summary, years, merged, messages, interval_ms, overflow_checks,
                 parts, pc, range, bucket_map, current, buckets, contributions,
                 models, lookup>>

\* x.merge(y): y is moved into the call, its name stands for a fresh
\* accumulator afterwards
DayMergeInto ==
  /\ pc = "day"
  /\ \E x \in DayNames : \E y \in DayNames \ {x} :
       /\ accs.log[y] # NoMessages
       /\ accs' = [accs EXCEPT
                     ![x] = DayMerge(accs[x], accs[y]),
                     ![y] = DayAccumulatorDefault,
                     !.log[x] = [m \in SourceMessages |->
                                   accs.log[x][m] + accs.log[y][m]],
                     !.log[y] = NoMessages,
                     !.last = [op |-> "merge", into |-> x,
                               moved  |-> LogSize(accs.log[y]),
                               shared |-> Cardinality(DOMAIN accs[x].sources
                                            \cap DOMAIN accs[y].sources)]]
  /\ UNCHANGED <<summary, years, merged, messages, interval_ms, overflow_checks,
                 parts, pc, range, bucket_map, current, buckets, contributions,
                 models, lookup>>

NextDay ==
  \/ DayAdd
  \/ DayMergeInto

SpecDay == InitDay /\ [][NextDay]_vars

(***************************************************************************)
(* Properties of the source entries and sums of a day                      *)
(***************************************************************************)
\* the (source, model_id) pairs of the messages an accumulator has taken in
PairsOf(log) == {<<m.source, m.model_id>> : m \in {n \in DOMAIN log : log[n] > 0}}

\* the messages of one pair, and the sum of one token field over them
MessagesOfPair(log, p) ==
  {m \in DOMAIN log : log[m] > 0 /\ m.source = p[1] /\ m.model_id = p[2]}
PairTokens(log, p, f) ==
  LET ms == MessagesOfPair(log, p)
  IN  SetSum(ms, [m \in ms |-> log[m] * m.tokens[f]])
PairMessages(log, p) ==
  LET ms == MessagesOfPair(log, p) IN SetSum(ms, [m \in ms |-> log[m]])

\* C21: a day accumulator holds one SourceContribution per distinct (source,
\* model_id) pair of its messages, also when a source or a model id holds a
\* ':', and the entry of a pair carries the source, the model id, the token
\* sums (clamped at the top of the counter range) and the count of exactly
\* the messages of that pair
C21_OneEntryPerPair ==
  \A name \in DayNames :
    LET acc == accs[name]
        log == accs.log[name]
    IN  /\ Cardinality(DOMAIN acc.sources) = Cardinality(PairsOf(log))
        /\ \A p \in PairsOf(log) :
             \E k \in DOMAIN acc.sources :
               /\ acc.sources[k].source = p[1]
               /\ acc.sources[k].model_id = p[2]
               /\ acc.sources[k].messages = PairMessages(log, p)
               /\ \A f \in TokenFields :
                    acc.sources[k].tokens[f] = Min2(I64Max, PairTokens(log, p, f))

\* the tokens of all messages an accumulator has taken in
LogTokens(log) ==
  SetSum(DOMAIN log, [m \in DOMAIN log |-> log[m] * CounterSum(m.tokens)])

\* C25: while the tokens taken in stay below the top of the counter range,
\* after any add_message and merge the message count of a day accumulator is
\* the sum of the counts of its source entries, each field of its token
\* breakdown is the sum of that field over the entries, and its total is the
\* sum of the five fields of the breakdown
C25_DayAccumulatorSums ==
  \A name \in DayNames :
    LET acc  == accs[name]
        keys == DOMAIN acc.sources
    IN  LogTokens(accs.log[name]) < I64Max =>
          /\ acc.totals.messages =
               SetSum(keys, [k \in keys |-> acc.sources[k].messages])
          /\ \A f \in TokenFields :
               acc.token_breakdown[f] =
                 SetSum(keys, [k \in keys |-> acc.sources[k].tokens[f]])
          /\ acc.totals.tokens = CounterSum(acc.token_breakdown)

\* a merge has moved messages into an accumulator that then holds three
\* messages in two source entries, one entry fed from both sides
C25_Witness ==
  /\ accs.last.op = "merge"
  /\ accs.last.moved >= 1
  /\ LET acc == accs[accs.last.into]
     IN  /\ LogTokens(accs.log[accs.last.into]) < I64Max
         /\ acc.totals.messages = 3
         /\ acc.totals.tokens > 0
         /\ Cardinality(DOMAIN acc.sources) = 2
         /\ accs.last.shared >= 1

(***************************************************************************)
(* Strings of the pricing resolver                                         *)
(***************************************************************************)
\* "anthropic/"
STR_anthropic_slash == <<97,110,116,104,114,111,112,105,99,47>>
\* "openai/"
STR_openai_slash == <<111,112,101,110,97,105,47>>
\* "google/"
STR_google_slash == <<103,111,111,103,108,101,47>>
\* "bedrock/"
STR_bedrock_slash == <<98,101,100,114,111,99,107,47>>
\* "opus"
STR_opus == <<111,112,117,115>>
\* "sonnet"
STR_sonnet == <<115,111,110,110,101,116>>
\* "haiku"
STR_haiku == <<104,97,105,107,117>>
\* "4.5"
STR_4_dot_5 == <<52,46,53>>
\* "4-5"
STR_4_5 == <<52,45,53>>
\* "4"
STR_4 == <<52>>
\* "3.7"
STR_3_dot_7 == <<51,46,55>>
\* "3-7"
STR_3_7 == <<51,45,55>>
\* "3.5"
STR_3_dot_5 == <<51,46,53>>
\* "3-5"
STR_3_5 == <<51,45,53>>
\* "opus-4-5"
STR_opus_4_5 == <<111,112,117,115,45,52,45,53>>
\* "sonnet-4-5"
STR_sonnet_4_5 == <<115,111,110,110,101,116,45,52,45,53>>
\* "sonnet-4"
STR_sonnet_4 == <<115,111,110,110,101,116,45,52>>
\* "sonnet-3-7"
STR_sonnet_3_7 == <<115,111,110,110,101,116,45,51,45,55>>
\* "sonnet-3-5"
STR_sonnet_3_5 == <<115,111,110,110,101,116,45,51,45,53>>
\* "haiku-4-5"
STR_haiku_4_5 == <<104,97,105,107,117,45,52,45,53>>
\* "o3"
STR_o3 == <<111,51>>
\* "gpt-4.1"
STR_gpt_4_dot_1 == <<103,112,116,45,52,46,49>>
\* "gemini-2.5-pro"
STR_gemini_2_dot_5_pro == <<103,101,109,105,110,105,45,50,46,53,45,112,114,111>>
\* "gemini-2.5-flash"
STR_gemini_2_dot_5_flash == <<103,101,109,105,110,105,45,50,46,53,45,102,108,97,115,104>>
\* "claude-4-sonnet"
STR_claude_4_sonnet == <<99,108,97,117,100,101,45,52,45,115,111,110,110,101,116>>
\* "claude-3-5-sonnet-20241022"
STR_claude_3_5_sonnet_20241022 == <<99,108,97,117,100,101,45,51,45,53,45,115,111,110,110,101,116,45,50,48,50,52,49,48,50,50>>
\* "GPT-4o-mini"
STR_GPT_4o_mini == <<71,80,84,45,52,111,45,109,105,110,105>>
\* "mystery"
STR_mystery == <<109,121,115,116,101,114,121>>
\* "anthropic/claude-4-sonnet"
STR_anthropic_slash_claude_4_sonnet == <<97,110,116,104,114,111,112,105,99,47,99,108,97,117,100,101,45,52,45,115,111,110,110,101,116>>
\* "openai/claude-4-sonnet"
STR_openai_slash_claude_4_sonnet == <<111,112,101,110,97,105,47,99,108,97,117,100,101,45,52,45,115,111,110,110,101,116>>
\* "google/sonnet-4"
STR_google_slash_sonnet_4 == <<103,111,111,103,108,101,47,115,111,110,110,101,116,45,52>>
\* "bedrock/sonnet-4"
STR_bedrock_slash_sonnet_4 == <<98,101,100,114,111,99,107,47,115,111,110,110,101,116,45,52>>
\* "anthropic/claude-3-5-sonnet-20241022"
STR_anthropic_slash_claude_3_5_sonnet_20241022 == <<97,110,116,104,114,111,112,105,99,47,99,108,97,117,100,101,45,51,45,53,45,115,111,110,110,101,116,45,50,48,50,52,49,48,50,50>>
\* "openai/gpt-4o"
STR_openai_slash_gpt_4o == <<111,112,101,110,97,105,47,103,112,116,45,52,111>>

\* str::to_lowercase on ASCII text
ToLowercase(s) == [i \in 1..Len(s) |-> IF s[i] \in 65..90 THEN s[i] + 32 ELSE s[i]]

\* str::contains(&str)
Contains(haystack, needle) ==
  \E i \in 0..(Len(haystack) - Len(needle)) :
    SubSeq(haystack, i + 1, i + Len(needle)) = needle

\* str::starts_with(&str)
StartsWith(s, prefix) ==
  Len(prefix) <= Len(s) /\ SubSeq(s, 1, Len(prefix)) = prefix

None == [some |-> FALSE]
Some(v) == [some |-> TRUE, value |-> v]

(***************************************************************************)
(* PricingData                                                             *)
(***************************************************************************)
ModelPricing(i, o, cr, cw) ==
  [input_cost_per_token |-> i, output_cost_per_token |-> o,
   cache_read_input_token_cost |-> cr, cache_creation_input_token_cost |-> cw]

\* variant: the prefixes are tried in another order
Prefixes_Reordered ==
  <<STR_openai_slash, STR_anthropic_slash, STR_bedrock_slash, STR_google_slash>>

\* let prefixes = ["anthropic/", "openai/", "google/", "bedrock/"]
Prefixes == <<STR_anthropic_slash, STR_openai_slash, STR_google_slash, STR_bedrock_slash>>

NormalizeCursorModelName(model_id) ==
  LET lower == ToLowercase(model_id)
      has45 == Contains(lower, STR_4_dot_5) \/ Contains(lower, STR_4_5)
      has4  == Contains(lower, STR_4)
      has37 == Contains(lower, STR_3_dot_7) \/ Contains(lower, STR_3_7)
      has35 == Contains(lower, STR_3_dot_5) \/ Contains(lower, STR_3_5)
  IN  IF Contains(lower, STR_opus) /\ has45 THEN Some(STR_opus_4_5)
      ELSE IF Contains(lower, STR_opus) /\ has4 THEN Some(STR_opus_4)
      ELSE IF Contains(lower, STR_sonnet) /\ has45 THEN Some(STR_sonnet_4_5)
      ELSE IF Contains(lower, STR_sonnet) /\ has4 THEN Some(STR_sonnet_4)
      ELSE IF Contains(lower, STR_sonnet) /\ has37 THEN Some(STR_sonnet_3_7)
      ELSE IF Contains(lower, STR_sonnet) /\ has35 THEN Some(STR_sonnet_3_5)
      ELSE IF Contains(lower, STR_haiku) /\ has45 THEN Some(STR_haiku_4_5)
      ELSE IF lower = STR_o3 THEN Some(STR_o3)
      ELSE IF StartsWith(lower, STR_gpt_4o) \/ lower = STR_gpt_4o THEN Some(STR_gpt_4o)
      ELSE IF StartsWith(lower, STR_gpt_4_dot_1) \/ Contains(lower, STR_gpt_4_dot_1)
           THEN Some(STR_gpt_4_dot_1)
      ELSE IF Contains(lower, STR_gemini_2_dot_5_pro) THEN Some(STR_gemini_2_dot_5_pro)
      ELSE IF Contains(lower, STR_gemini_2_dot_5_flash) THEN Some(STR_gemini_2_dot_5_flash)
      ELSE None

\* what a lookup hands back: the entry found (its key and its pricing)
Found(ms, key) == [some |-> TRUE, key |-> key, pricing |-> ms[key]]

\* the loop over the prefixes from the i-th on: the first prefixed key present
RECURSIVE PrefixLookup(_, _, _)
PrefixLookup(ms, name, i) ==
  IF i > Len(Prefixes) THEN None
  ELSE IF (Prefixes[i] \o name) \in DOMAIN ms THEN Found(ms, Prefixes[i] \o name)
  ELSE PrefixLookup(ms, name, i + 1)

\* variant: only a key that contains the name passes
FuzzyMatches_KeyContainsOnly(key, lower_model, lower_normalized) ==
  LET lower_key == ToLowercase(key)
  IN  \/ Contains(lower_key, lower_model)
      \/ /\ lower_normalized.some
         /\ Contains(lower_key, lower_normalized.value)

\* the test of the fuzzy loop on one key
FuzzyMatches(key, lower_model, lower_normalized) ==
  LET lower_key == ToLowercase(key)
  IN  \/ Contains(lower_key, lower_model)
      \/ Contains(lower_model, lower_key)
      \/ /\ lower_normalized.some
         /\ \/ Contains(lower_key, lower_normalized.value)
            \/ Contains(lower_normalized.value, lower_key)

\* the fuzzy loop visits the keys in the unspecified order of the HashMap and
\* returns at the first key that passes the test: any passing key may be it
FuzzyOutcomes(ms, model_id, normalized) ==
  LET lower_model == ToLowercase(model_id)
      lower_normalized == IF normalized.some THEN Some(ToLowercase(normalized.value))
                          ELSE None
      hits == {k \in DOMAIN ms : FuzzyMatches(k, lower_model, lower_normalized)}
  IN  IF hits = {} THEN {None} ELSE {Found(ms, k) : k \in hits}

\* the results get_pricing can return
GetPricingOutcomes(ms, model_id) ==
  LET normalized == NormalizeCursorModelName(model_id)
      prefixed   == PrefixLookup(ms, model_id, 1)
      nprefixed  == IF normalized.some THEN PrefixLookup(ms, normalized.value, 1) ELSE None
  IN  IF model_id \in DOMAIN ms THEN {Found(ms, model_id)}
      ELSE IF prefixed.some THEN {prefixed}
      ELSE IF normalized.some /\ normalized.value \in DOMAIN ms
           THEN {Found(ms, normalized.value)}
      ELSE IF nprefixed.some THEN {nprefixed}
      ELSE FuzzyOutcomes(ms, model_id, normalized)

\* the cost formula on a resolved pricing; (output + reasoning) is a plain
\* i64 addition
CostOf(pricing, t) ==
  t.input * pricing.input_cost_per_token
    + WrappingAdd(t.output, t.reasoning) * pricing.output_cost_per_token
    + t.cache_read * pricing.cache_read_input_token_cost
    + t.cache_write * pricing.cache_creation_input_token_cost

\* calculate_cost once get_pricing has returned r: the pricing used, the cost
CostResult(r, t, checks) ==
  IF ~r.some THEN [panic |-> FALSE, via |-> r, cost |-> 0]
  ELSE IF checks /\ AddOverflows(t.output, t.reasoning)
       THEN [panic |-> TRUE, via |-> r, cost |-> 0]
       ELSE [panic |-> FALSE, via |-> r, cost |-> CostOf(r.pricing, t)]

(***************************************************************************)
(* Inputs and operations of the pricing resolver                           *)
(***************************************************************************)
\* largest number of models in the catalog
MaxModels == 2

CatalogKeys ==
  { STR_claude_4_sonnet, STR_anthropic_slash_claude_4_sonnet,
    STR_openai_slash_claude_4_sonnet, STR_sonnet_4, STR_google_slash_sonnet_4,
    STR_bedrock_slash_sonnet_4, STR_anthropic_slash_claude_3_5_sonnet_20241022,
    STR_sonnet, STR_gpt_4o, STR_openai_slash_gpt_4o }

ModelIds ==
  { STR_claude_4_sonnet, STR_claude_3_5_sonnet_20241022, STR_gpt_4o,
    STR_GPT_4o_mini, STR_mystery }

Pricings == { ModelPricing(3, 15, 1, 4), ModelPricing(1, 2, 0, 1) }

\* token counts handed to calculate_cost: input, output, cache_read,
\* cache_write, reasoning; the last has an output count at the top of the
\* counter range
CostArguments ==
  { TokenBreakdown(2, 1, 3, 1, 0), TokenBreakdown(1, 2, 0, 0, 3),
    TokenBreakdown(0, 0, 0, 0, 0), TokenBreakdown(0, I64Max, 0, 0, 1) }

\* PricingData::new()
InitPricing ==
  /\ models = EmptyMap
  /\ lookup = [op |-> "none"]
  /\ overflow_checks \in BOOLEAN
  /\ pc = "pricing"
  /\ messages = << >>
  /\ interval_ms = 0
  /\ parts = << >>
  /\ range = Idle
  /\ bucket_map = EmptyMap
  /\ current = 0
  /\ buckets = << >>
  /\ contributions = << >>
  /\ summary = Idle
  /\ years = Idle
  /\ accs = Idle
  /\ merged = Idle

\* add_model: insert or replace; the borrow a lookup returned has ended
AddModel ==
  /\ pc = "pricing"
  /\ \E key \in CatalogKeys, pricing \in Pricings :
       /\ Cardinality(DOMAIN models \cup {key}) <= MaxModels
       /\ models' = MapUpsert(models, key, pricing)
  /\ lookup' = [op |-> "add_model"]
  /\ UNCHANGED <<summary, years, accs, merged, messages, interval_ms, overflow_checks, parts, pc, range,
                 bucket_map, current, buckets, contributions>>

GetPricing ==
  /\ pc = "pricing"
  /\ \E model_id \in ModelIds :
       \E r \in GetPricingOutcomes(models, model_id) :
         lookup' = [op |-> "get_pricing", model_id |-> model_id, result |-> r]
  /\ UNCHANGED <<summary, years, accs, merged, messages, interval_ms, overflow_checks, parts, pc, range,
                 bucket_map, current, buckets, contributions, models>>

CalculateCost ==
  /\ pc = "pricing"
  /\ \E model_id \in ModelIds :
       \E r \in GetPricingOutcomes(models, model_id) :
         \E t \in CostArguments :
           lookup' = [op |-> "calculate_cost", model_id |-> model_id, tokens |-> t,
                      result |-> CostResult(r, t, overflow_checks)]
  /\ UNCHANGED <<summary, years, accs, merged, messages, interval_ms, overflow_checks, parts, pc, range,
                 bucket_map, current, buckets, contributions, models>>

NextPricing ==
  \/ AddModel
  \/ GetPricing
  \/ CalculateCost

SpecPricing == InitPricing /\ [][NextPricing]_vars

(***************************************************************************)
(* Properties of the pricing resolver                                      *)
(***************************************************************************)
\* the keys that the steps before the fuzzy one try, in the order of the
\* claim: the id, the id behind anthropic/, openai/, google/, bedrock/, then
\* the same five for the normalized name
StepKeys(model_id) ==
  LET order == <<STR_anthropic_slash, STR_openai_slash, STR_google_slash,
                 STR_bedrock_slash>>
      five(name) == <<name>> \o [i \in 1..4 |-> order[i] \o name]
      normalized == NormalizeCursorModelName(model_id)
  IN  five(model_id) \o (IF normalized.some THEN five(normalized.value) ELSE << >>)

\* one string is, without regard to case, a substring of the other
SubstringRelated(a, b) ==
  \/ Contains(ToLowercase(a), ToLowercase(b))
  \/ Contains(ToLowercase(b), ToLowercase(a))

FuzzyRelated(key, model_id) ==
  \/ SubstringRelated(key, model_id)
  \/ /\ NormalizeCursorModelName(model_id).some
     /\ SubstringRelated(key, NormalizeCursorModelName(model_id).value)

\* C7: get_pricing returns the entry of the first step key that is in the
\* catalog; only when none is, an entry the fuzzy step accepts, if there is one
C7_FirstMatchingStep ==
  lookup.op = "get_pricing" =>
    LET ks   == StepKeys(lookup.model_id)
        hits == {j \in 1..Len(ks) : ks[j] \in DOMAIN models}
        r    == lookup.result
    IN  IF hits # {}
        THEN LET first == CHOOSE j \in hits : \A h \in hits : j <= h
             IN  r.some /\ r.key = ks[first] /\ r.pricing = models[ks[first]]
        ELSE /\ r.some => /\ r.key \in DOMAIN models
                          /\ r.pricing = models[r.key]
                          /\ FuzzyRelated(r.key, lookup.model_id)
             /\ (\E k \in DOMAIN models : FuzzyRelated(k, lookup.model_id)) => r.some

\* the bare id is resolved through anthropic/ although the catalog also holds
\* the id behind openai/, with another pricing
C7_Witness ==
  /\ lookup.op = "get_pricing"
  /\ lookup.model_id = STR_claude_4_sonnet
  /\ DOMAIN models = {STR_anthropic_slash_claude_4_sonnet,
                      STR_openai_slash_claude_4_sonnet}
  /\ models[STR_anthropic_slash_claude_4_sonnet] # models[STR_openai_slash_claude_4_sonnet]
  /\ lookup.result.some
  /\ lookup.result.key = STR_anthropic_slash_claude_4_sonnet

\* C8: calculate_cost bills input, output plus reasoning, cache reads and
\* cache writes at the rates of the pricing get_pricing resolves, and returns
\* 0 without panic when there is none
C8_CostFormula ==
  lookup.op = "calculate_cost" =>
    LET r == lookup.result
        t == lookup.tokens
    IN  /\ r.via \in GetPricingOutcomes(models, lookup.model_id)
        /\ ~r.via.some => (r.cost = 0 /\ ~r.panic)
        /\ r.via.some =>
             /\ ~r.panic
             /\ r.cost = t.input * r.via.pricing.input_cost_per_token
                         + (t.output + t.reasoning) * r.via.pricing.output_cost_per_token
                         + t.cache_read * r.via.pricing.cache_read_input_token_cost
                         + t.cache_write * r.via.pricing.cache_creation_input_token_cost

\* C23: get_pricing returns None exactly when no key of the catalog is,
\* without regard to case, a substring or a superstring of the id or of its
\* normalized form; what it returns otherwise is the entry of such a key
C23_NoneIffUnrelated ==
  lookup.op = "get_pricing" =>
    LET related == {k \in DOMAIN models : FuzzyRelated(k, lookup.model_id)}
        r       == lookup.result
    IN  /\ ~r.some <=> related = {}
        /\ r.some => (r.key \in related /\ r.pricing = models[r.key])

\* an id resolved through its normalized form behind a prefix, to a key that
\* is no substring or superstring of the id itself, from a catalog that also
\* holds an unrelated key
C23_Witness ==
  /\ lookup.op = "get_pricing"
  /\ lookup.model_id = STR_claude_3_5_sonnet_20241022
  /\ DOMAIN models = {STR_google_slash_sonnet_4, STR_openai_slash_gpt_4o}
  /\ lookup.result.some
  /\ lookup.result.key = STR_google_slash_sonnet_4
  /\ ~SubstringRelated(lookup.result.key, lookup.model_id)

(***************************************************************************)
(* normalize_cursor_model_name on its own                                  *)
(***************************************************************************)
\* "-"
STR_dash == <<45>>
\* "claude-"
STR_claude_dash == <<99,108,97,117,100,101,45>>
\* "-20241022"
STR_dash_20241022 == <<45,50,48,50,52,49,48,50,50>>
\* "-thinking"
STR_dash_thinking == <<45,116,104,105,110,107,105,110,103>>

Families == {STR_opus, STR_sonnet, STR_haiku}
Markers ==
  {STR_4_dot_5, STR_4_5, STR_4, STR_3_dot_7, STR_3_7, STR_3_dot_5, STR_3_5}
Suffixes == {<< >>, STR_dash_20241022, STR_dash_thinking}

\* ids handed to the normalization: every family with every version marker
\* in the Cursor order ("claude-4-sonnet", "claude-3.5-haiku-20241022", ...)
\* and in the catalog order ("claude-sonnet-4", "claude-opus-4-5-thinking",
\* ...), a family without marker, the ids of the lookups, and "o3"
NormalizeIds ==
  {STR_claude_dash \o v \o STR_dash \o f \o x :
     v \in Markers, f \in Families, x \in Suffixes}
    \cup {STR_claude_dash \o f \o STR_dash \o v \o x :
            v \in Markers, f \in Families, x \in Suffixes}
    \cup Families \cup ModelIds \cup {STR_o3}

\* a call with one of the ids
InitNormalize ==
  /\ lookup \in {[op |-> "call", model_id |-> id] : id \in NormalizeIds}
  /\ pc = "normalize"
  /\ models = EmptyMap
  /\ overflow_checks = FALSE
  /\ messages = << >>
  /\ interval_ms = 0
  /\ parts = << >>
  /\ range = Idle
  /\ bucket_map = EmptyMap
  /\ current = 0
  /\ buckets = << >>
  /\ contributions = << >>
  /\ summary = Idle
  /\ years = Idle
  /\ accs = Idle
  /\ merged = Idle

Normalize ==
  /\ pc = "normalize"
  /\ lookup.op = "call"
  /\ lookup' = [op |-> "normalize", model_id |-> lookup.model_id,
                result |-> NormalizeCursorModelName(lookup.model_id)]
  /\ UNCHANGED <<summary, years, accs, merged, messages, interval_ms, overflow_checks,
                 parts, pc, range, bucket_map, current, buckets, contributions, models>>

NextNormalize == Normalize

SpecNormalize == InitNormalize /\ [][NextNormalize]_vars

(***************************************************************************)
(* Properties of the normalization                                         *)
(***************************************************************************)
\* the version a set of markers names: "4.5" or "4-5" is 4-5 and holds a "4"
\* itself; any other mix of markers names no single version
VersionOf(lower) ==
  LET has45 == Contains(lower, STR_4_dot_5) \/ Contains(lower, STR_4_5)
      has4  == Contains(lower, STR_4)
      has37 == Contains(lower, STR_3_dot_7) \/ Contains(lower, STR_3_7)
      has35 == Contains(lower, STR_3_dot_5) \/ Contains(lower, STR_3_5)
  IN  IF has45 /\ ~has37 /\ ~has35 THEN Some(STR_4_5)
      ELSE IF has4 /\ ~has45 /\ ~has37 /\ ~has35 THEN Some(STR_4)
      ELSE IF has37 /\ ~has4 /\ ~has35 THEN Some(STR_3_7)
      ELSE IF has35 /\ ~has4 /\ ~has37 THEN Some(STR_3_5)
      ELSE None

FamiliesIn(lower) == {f \in Families : Contains(lower, f)}

\* the rules for the OpenAI and Gemini names
OtherRule(lower) ==
  \/ lower = STR_o3
  \/ StartsWith(lower, STR_gpt_4o)
  \/ Contains(lower, STR_gpt_4_dot_1)
  \/ Contains(lower, STR_gemini_2_dot_5_pro)
  \/ Contains(lower, STR_gemini_2_dot_5_flash)

\* C22: an id that holds one family name and the markers of one version
\* normalizes to family-version, for every family and every version; an id
\* with no family and marker and none of the other rules normalizes to None
C22_FamilyVersion ==
  lookup.op = "normalize" =>
    LET lower == ToLowercase(lookup.model_id)
        fs    == FamiliesIn(lower)
        v     == VersionOf(lower)
        anyMarker == \E m \in Markers : Contains(lower, m)
    IN  /\ (Cardinality(fs) = 1 /\ v.some) =>
             \A f \in fs : lookup.result = Some(f \o STR_dash \o v.value)
        /\ ((fs = {} \/ ~anyMarker) /\ ~OtherRule(lower)) => lookup.result = None

\* the marker stands next to the family name: "3-5-sonnet" or "sonnet-3-5"
Attached(lower, f, m) ==
  \/ Contains(lower, m \o STR_dash \o f)
  \/ Contains(lower, f \o STR_dash \o m)

\* C26: for an id with "sonnet" the version is that of the marker attached to
\* the family name; a '4' elsewhere in the id, as in the date 20241022, does
\* not count: with "3-5" attached the result is sonnet-3-5, with "3-7"
\* sonnet-3-7
C26_AttachedMarkerDecides ==
  lookup.op = "normalize" =>
    LET lower == ToLowercase(lookup.model_id)
        at(m) == Attached(lower, STR_sonnet, m)
        four  == at(STR_4) \/ at(STR_4_5) \/ at(STR_4_dot_5)
    IN  /\ ((at(STR_3_5) \/ at(STR_3_dot_5)) /\ ~four) =>
             lookup.result = Some(STR_sonnet_3_5)
        /\ ((at(STR_3_7) \/ at(STR_3_dot_7)) /\ ~four) =>
             lookup.result = Some(STR_sonnet_3_7)

=============================================================================
